---- MODULE Spec2Model ----
(***************************************************************************)
(* go-voicevox: the synthesis engine (pkg/voicevox/engine.go).  One Engine *)
(* runs Execute: the script's segments get a style id each, the resolvable *)
(* ones are dispatched as goroutines behind a rate limiter and a semaphore,*)
(* the results are joined, aggregated and written out as one WAV file.     *)
(***************************************************************************)
EXTENDS Integers, Sequences, FiniteSets, TLC

\* ----------------------------------------------------------------------
\* Bounds of the model
\* ----------------------------------------------------------------------

\* Longest segment list the parser hands to one Execute.
MaxSegs == 3

\* config.MaxParallelSegments is drawn from 1..MaxParallelChoice.
MaxParallelChoice == 2

\* config.SegmentRateLimit, in clock ticks.
RateTicks == 2

\* ----------------------------------------------------------------------
\* Tags.  A combined tag "[speaker][style]" is the sequence of its
\* bracket groups; reBaseSpeakerTag keeps the first group.
\* ----------------------------------------------------------------------

NoTag == << >>

TagZundaNormal == <<"zundamon", "normal">>
TagZundaSexy   == <<"zundamon", "sexy">>
TagMetanNormal == <<"metan", "normal">>
TagGhostNormal == <<"ghost", "normal">>

\* The combined tags the scripts of a run carry: one the catalog lacks
\* but whose speaker has a default style, and one of an unknown speaker.
ScriptTags == {TagZundaSexy, TagGhostNormal}

BaseSpeakerTagOf(tag) == IF Len(tag) >= 1 THEN <<tag[1]>> ELSE NoTag

\* A SpeakerData as LoadSpeakers builds it for the two supported speakers.
StyleIDMap == (TagZundaNormal :> 3) @@ (TagMetanNormal :> 2)

DefaultStyleMap == (<<"zundamon">> :> TagZundaNormal) @@ (<<"metan">> :> TagMetanNormal)

\* SpeakerData.GetStyleID and SpeakerData.GetDefaultTag.
GetStyleID(d, tag) ==
    IF tag \in DOMAIN d.StyleIDMap
    THEN [ok |-> TRUE, id |-> d.StyleIDMap[tag]]
    ELSE [ok |-> FALSE, id |-> 0]

GetDefaultTag(d, baseSpeakerTag) ==
    IF baseSpeakerTag \in DOMAIN d.DefaultStyleMap
    THEN [ok |-> TRUE, tag |-> d.DefaultStyleMap[baseSpeakerTag]]
    ELSE [ok |-> FALSE, tag |-> NoTag]

\* Engine.data of the engine that runs Execute.
EngineData == [StyleIDMap |-> StyleIDMap, DefaultStyleMap |-> DefaultStyleMap]

DataGetStyleID(tag) == GetStyleID(EngineData, tag)

DataGetDefaultTag(base) == GetDefaultTag(EngineData, base)

\* ----------------------------------------------------------------------
\* Errors and results
\* ----------------------------------------------------------------------

\* An error value is the message it prints: its kind, the segment index
\* (0-based, as the code prints it) and the tag it names.
NoErr == [kind |-> "nil", index |-> 0, tag |-> NoTag]

ErrExtract(tag, index) == [kind |-> "extract", index |-> index, tag |-> tag]
ErrNoStyle(tag, index) == [kind |-> "nostyle", index |-> index, tag |-> tag]
ErrQuery(index)        == [kind |-> "query", index |-> index, tag |-> NoTag]
ErrSynth(index)        == [kind |-> "synth", index |-> index, tag |-> NoTag]

\* A WAV payload as RunSynthesis returned it, named by the request it
\* answers (the position of that request's segment); NoWav is nil.
NoWav == [seg |-> 0]

Wav(index) == [seg |-> index + 1]

\* What Execute returned.
RetNone    == [kind |-> "running", TotalErrors |-> 0, Details |-> << >>]
RetNil     == [kind |-> "nil", TotalErrors |-> 0, Details |-> << >>]
RetNoSegs  == [kind |-> "nosegments", TotalErrors |-> 0, Details |-> << >>]
RetNoAudio == [kind |-> "noaudio", TotalErrors |-> 0, Details |-> << >>]
RetCombine == [kind |-> "combine", TotalErrors |-> 0, Details |-> << >>]
RetWrite   == [kind |-> "write", TotalErrors |-> 0, Details |-> << >>]

ErrSynthesisBatch(total, details) ==
    [kind |-> "batch", TotalErrors |-> total, Details |-> details]

NoFile == [written |-> FALSE, data |-> << >>]

\* ----------------------------------------------------------------------
\* Engine.getStyleID: cache, exact match, default of the base tag.
\* ----------------------------------------------------------------------

\* Variant: a miss returns id 0 and no error.
getStyleID_ZeroOnMiss(cache, tag, baseSpeakerTag, index) ==
    IF tag \in DOMAIN cache
    THEN [id |-> cache[tag], err |-> NoErr, cache |-> cache]
    ELSE IF DataGetStyleID(tag).ok
    THEN [id |-> DataGetStyleID(tag).id, err |-> NoErr,
          cache |-> (tag :> DataGetStyleID(tag).id) @@ cache]
    ELSE LET d == DataGetDefaultTag(baseSpeakerTag) IN
         IF d.ok /\ DataGetStyleID(d.tag).ok
         THEN [id |-> DataGetStyleID(d.tag).id, err |-> NoErr,
               cache |-> (tag :> DataGetStyleID(d.tag).id) @@ cache]
         ELSE [id |-> 0, err |-> NoErr, cache |-> cache]

\* Variant: the default style of the base tag is tried before the tag itself.
getStyleIDWith_DefaultFirst(data, cache, tag, baseSpeakerTag, index) ==
    IF tag \in DOMAIN cache
    THEN [id |-> cache[tag], err |-> NoErr, cache |-> cache]
    ELSE LET d == GetDefaultTag(data, baseSpeakerTag) IN
         IF baseSpeakerTag # NoTag /\ d.ok /\ GetStyleID(data, d.tag).ok
         THEN [id |-> GetStyleID(data, d.tag).id, err |-> NoErr,
               cache |-> (tag :> GetStyleID(data, d.tag).id) @@ cache]
         ELSE IF GetStyleID(data, tag).ok
         THEN [id |-> GetStyleID(data, tag).id, err |-> NoErr,
               cache |-> (tag :> GetStyleID(data, tag).id) @@ cache]
         ELSE [id |-> 0, err |-> ErrNoStyle(tag, index), cache |-> cache]

\* Variant: an id found by fallback is cached under the default tag.
getStyleIDWith_CachesDefaultTag(data, cache, tag, baseSpeakerTag, index) ==
    IF tag \in DOMAIN cache
    THEN [id |-> cache[tag], err |-> NoErr, cache |-> cache]
    ELSE IF GetStyleID(data, tag).ok
    THEN [id |-> GetStyleID(data, tag).id, err |-> NoErr,
          cache |-> (tag :> GetStyleID(data, tag).id) @@ cache]
    ELSE IF baseSpeakerTag = NoTag
    THEN [id |-> 0, err |-> ErrExtract(tag, index), cache |-> cache]
    ELSE LET d == GetDefaultTag(data, baseSpeakerTag) IN
         IF d.ok /\ GetStyleID(data, d.tag).ok
         THEN [id |-> GetStyleID(data, d.tag).id, err |-> NoErr,
               cache |-> (d.tag :> GetStyleID(data, d.tag).id) @@ cache]
         ELSE [id |-> 0, err |-> ErrNoStyle(tag, index), cache |-> cache]

\* Engine.getStyleID of an engine whose data field is data.
getStyleIDWith(data, cache, tag, baseSpeakerTag, index) ==
    IF tag \in DOMAIN cache
    THEN [id |-> cache[tag], err |-> NoErr, cache |-> cache]
    ELSE IF GetStyleID(data, tag).ok
    THEN [id |-> GetStyleID(data, tag).id, err |-> NoErr,
          cache |-> (tag :> GetStyleID(data, tag).id) @@ cache]
    ELSE IF baseSpeakerTag = NoTag
    THEN [id |-> 0, err |-> ErrExtract(tag, index), cache |-> cache]
    ELSE LET d == GetDefaultTag(data, baseSpeakerTag) IN
         IF d.ok /\ GetStyleID(data, d.tag).ok
         THEN [id |-> GetStyleID(data, d.tag).id, err |-> NoErr,
               cache |-> (tag :> GetStyleID(data, d.tag).id) @@ cache]
         ELSE [id |-> 0, err |-> ErrNoStyle(tag, index), cache |-> cache]

getStyleID(cache, tag, baseSpeakerTag, index) ==
    getStyleIDWith(EngineData, cache, tag, baseSpeakerTag, index)

\* ----------------------------------------------------------------------
\* Engine.prepareSegments: the loop that resolves every segment in order,
\* threading the cache; position k of the list is segment index k-1.
\* ----------------------------------------------------------------------

engineSegment(pSeg, styleID, err) ==
    [SpeakerTag |-> pSeg.SpeakerTag, BaseSpeakerTag |-> pSeg.BaseSpeakerTag,
     Text |-> pSeg.Text, StyleID |-> styleID, Err |-> err]

RECURSIVE resolveAll(_, _, _)
resolveAll(parserSegments, k, acc) ==
    IF k > Len(parserSegments)
    THEN acc
    ELSE LET pSeg == parserSegments[k]
             r    == getStyleID(acc.cache, pSeg.SpeakerTag, pSeg.BaseSpeakerTag, k - 1)
         IN resolveAll(parserSegments, k + 1,
              [segments |-> Append(acc.segments, engineSegment(pSeg, r.id, r.err)),
               preCalcErrors |-> IF r.err # NoErr
                                 THEN Append(acc.preCalcErrors, r.err)
                                 ELSE acc.preCalcErrors,
               cache |-> r.cache])

\* Variant: an empty parse result is not tested for.
prepareSegments_NoEmptyTest(parserSegments, cache) ==
    LET r == resolveAll(parserSegments, 1,
               [segments |-> << >>, preCalcErrors |-> << >>, cache |-> cache])
    IN IF Len(r.preCalcErrors) = Len(r.segments)
       THEN [kind |-> "allfailed", segments |-> r.segments,
             preCalcErrors |-> r.preCalcErrors, cache |-> r.cache]
       ELSE [kind |-> "ok", segments |-> r.segments,
             preCalcErrors |-> r.preCalcErrors, cache |-> r.cache]

\* kind: "nosegments" (nothing parsed), "allfailed" or "ok".
prepareSegments(parserSegments, cache) ==
    IF Len(parserSegments) = 0
    THEN [kind |-> "nosegments", segments |-> << >>, preCalcErrors |-> << >>,
          cache |-> cache]
    ELSE LET r == resolveAll(parserSegments, 1,
                    [segments |-> << >>, preCalcErrors |-> << >>, cache |-> cache])
         IN IF Len(r.preCalcErrors) = Len(r.segments)
            THEN [kind |-> "allfailed", segments |-> r.segments,
                  preCalcErrors |-> r.preCalcErrors, cache |-> r.cache]
            ELSE [kind |-> "ok", segments |-> r.segments,
                  preCalcErrors |-> r.preCalcErrors, cache |-> r.cache]

\* ----------------------------------------------------------------------
\* Engine.processSegment's result and the collection loop that follows
\* wg.Wait(): errors in channel order, payloads by their index.
\* ----------------------------------------------------------------------

\* Variant: the result does not carry its segment's index.
segmentResult_IndexZero(index, wavData, err) == [index |-> 0, wavData |-> wavData, err |-> err]

segmentResult(index, wavData, err) == [index |-> index, wavData |-> wavData, err |-> err]

NoResult == segmentResult(0, NoWav, NoErr)

RECURSIVE collectResults(_, _, _)
collectResults(chan, k, acc) ==
    IF k > Len(chan)
    THEN acc
    ELSE LET res == chan[k] IN
         collectResults(chan, k + 1,
           IF res.err # NoErr
           THEN [acc EXCEPT !.runtimeErrors = Append(@, res.err)]
           ELSE IF res.wavData # NoWav
           THEN [acc EXCEPT !.ordered[res.index + 1] = res.wavData]
           ELSE acc)

\* Variant: payloads are kept in the order they arrived on the channel.
drainResults_ArrivalOrder(chan, n) ==
    LET d    == collectResults(chan, 1,
                  [ordered |-> [k \in 1..n |-> NoWav], runtimeErrors |-> << >>])
        wavs == SelectSeq(chan, LAMBDA res : res.err = NoErr /\ res.wavData # NoWav)
    IN [ordered |-> [k \in 1..n |-> IF k <= Len(wavs) THEN wavs[k].wavData ELSE NoWav],
        runtimeErrors |-> d.runtimeErrors]

\* Variant: each error overwrites the one before it.
drainResults_LastErrorOnly(chan, n) ==
    LET d == collectResults(chan, 1,
               [ordered |-> [k \in 1..n |-> NoWav], runtimeErrors |-> << >>])
    IN [ordered |-> d.ordered,
        runtimeErrors |-> IF Len(d.runtimeErrors) = 0 THEN << >>
                          ELSE <<d.runtimeErrors[Len(d.runtimeErrors)]>>]

drainResults(chan, n) ==
    collectResults(chan, 1,
      [ordered |-> [k \in 1..n |-> NoWav], runtimeErrors |-> << >>])

\* audio.CombineWavData as the engine sees it: an error (a payload is
\* malformed) and no bytes, or the payloads' samples in list order.
CombineWavData(wavDataList, wellFormed) ==
    IF wellFormed
    THEN [ok |-> TRUE, bytes |-> wavDataList]
    ELSE [ok |-> FALSE, bytes |-> << >>]

IsWav(data) == data # NoWav

\* Variant: only the runtime errors fail the run.
finalizeOutput_RuntimeOnly(orderedAudioDataList, preCalcErrs, runtimeErrs, wellFormed, ioOk) ==
    LET final == SelectSeq(orderedAudioDataList, IsWav)
    IN IF Len(runtimeErrs) > 0
       THEN [ret |-> ErrSynthesisBatch(Len(runtimeErrs), runtimeErrs),
             final |-> << >>, file |-> NoFile]
       ELSE IF Len(final) = 0
       THEN [ret |-> RetNoAudio, final |-> final, file |-> NoFile]
       ELSE IF ~CombineWavData(final, wellFormed).ok
       THEN [ret |-> RetCombine, final |-> final, file |-> NoFile]
       ELSE IF ~ioOk
       THEN [ret |-> RetWrite, final |-> final, file |-> NoFile]
       ELSE [ret |-> RetNil, final |-> final,
             file |-> [written |-> TRUE,
                       data |-> CombineWavData(final, wellFormed).bytes]]

\* Engine.finalizeOutput; wellFormed is whether the payloads are ones
\* CombineWavData accepts, ioOk whether MkdirAll and WriteFile succeed.
finalizeOutput(orderedAudioDataList, preCalcErrs, runtimeErrs, wellFormed, ioOk) ==
    LET allErrors == preCalcErrs \o runtimeErrs
        final     == SelectSeq(orderedAudioDataList, IsWav)
    IN IF Len(allErrors) > 0
       THEN [ret |-> ErrSynthesisBatch(Len(allErrors), allErrors),
             final |-> << >>, file |-> NoFile]
       ELSE IF Len(final) = 0
       THEN [ret |-> RetNoAudio, final |-> final, file |-> NoFile]
       ELSE IF ~CombineWavData(final, wellFormed).ok
       THEN [ret |-> RetCombine, final |-> final, file |-> NoFile]
       ELSE IF ~ioOk
       THEN [ret |-> RetWrite, final |-> final, file |-> NoFile]
       ELSE [ret |-> RetNil, final |-> final,
             file |-> [written |-> TRUE,
                       data |-> CombineWavData(final, wellFormed).bytes]]

\* ----------------------------------------------------------------------
\* State
\* ----------------------------------------------------------------------

VARIABLES
    styleIDCache,          \* Engine.styleIDCache
    limWait,               \* Engine.limiter: ticks until its one token is back
    maxParallel,           \* Engine.config.MaxParallelSegments
    pc,                    \* where Execute's own goroutine stands
    ctxDone,               \* the run context is cancelled
    segments,              \* []engineSegment of the run
    preCalcErrors,
    pos,                   \* position of the dispatch loop (segment index + 1)
    semaphore,             \* slots taken in the semaphore channel
    wg,                    \* sync.WaitGroup counter
    task,                  \* per segment: where its goroutine stands
    result,                \* per segment: the segmentResult its goroutine holds
    resultsChan,           \* buffered channel, capacity len(segments)
    orderedAudioDataList,
    runtimeErrors,
    finalAudioDataList,    \* the list handed to CombineWavData
    ret,                   \* what Execute returned
    file,                  \* the output file
    backendCalls,          \* history: the backend calls issued in the run
    delivered,             \* history: every result sent, in completion order
    sinceGate,             \* history: ticks since limiter.Wait last returned nil
    minGateGap,            \* history: least gap seen between two such returns
    sinceLaunch            \* history: ticks since the last goroutine launch

\* The textParser of package parser, and one call of its Parse.
VARIABLES
    p_segments,            \* textParser.segments
    p_currentTag,          \* textParser.currentTag
    p_currentText,         \* textParser.currentText
    p_textBuffer,          \* textParser.textBuffer
    p_fallbackTag,         \* textParser.fallbackTag
    lines,                 \* Parse: the lines its range loop has still to visit
    textToAppend,          \* appendAndSplitText: what its loop has still to place
    parsePc,               \* where the call of Parse stands
    parseErr,              \* the error Parse returned
    script,                \* history: the lines Parse was called with
    parseReturns,          \* history: the calls of Parse that have returned
    lastSplit              \* history: the last call of splitTextByPunctuation

\* One call of combineWavData.
VARIABLES
    combineInput,          \* its argument wavDataList
    combined               \* what it returned

\* LoadSpeakers, and the calls of getStyleID on an engine built with what
\* it returned.
VARIABLES
    speakersResponse,      \* history: what client.GetSpeakers returned
    speakerData,           \* the *SpeakerData LoadSpeakers returned
    loadErr,               \* the error LoadSpeakers returned
    resolved               \* history: the last call of getStyleID

engineVars == <<styleIDCache, limWait, maxParallel>>
loopVars   == <<pc, pos, segments, preCalcErrors>>
taskVars   == <<semaphore, wg, task, result, resultsChan, backendCalls, delivered>>
outVars    == <<orderedAudioDataList, runtimeErrors, finalAudioDataList, ret, file>>
gateHist   == <<sinceGate, minGateGap>>
launchHist == <<sinceLaunch>>

parserVars == <<p_segments, p_currentTag, p_currentText, p_textBuffer, p_fallbackTag,
                lines, textToAppend, parsePc, parseErr, script, lastSplit,
                parseReturns>>
wavVars    == <<combineInput, combined>>
catalogVars == <<speakersResponse, speakerData, loadErr, resolved>>
libVars    == <<parserVars, wavVars, catalogVars>>
runVars    == <<engineVars, loopVars, ctxDone, taskVars, outVars, gateHist, launchHist>>

vars == <<runVars, libVars>>

SegIdx == 1..MaxSegs

\* What the parser may hand over: segments always carry text.
ParserSegment(tag) ==
    [SpeakerTag |-> tag, BaseSpeakerTag |-> BaseSpeakerTagOf(tag), Text |-> "text"]

ParserSegments == {ParserSegment(t) : t \in ScriptTags}

ParseResults == UNION {[1..n -> ParserSegments] : n \in 0..MaxSegs}

Min(a, b) == IF a < b THEN a ELSE b

\* The empty string, as a sequence of runes.
EmptyString == << >>

\* No call of splitTextByPunctuation yet.
NoSplit == [called |-> FALSE, count |-> 0, text |-> EmptyString,
            partToAdd |-> EmptyString, remainder |-> EmptyString]

\* NewParser: a textParser with nothing in it, Parse not yet called.
NewParser ==
    /\ p_segments = << >>
    /\ p_currentTag = EmptyString
    /\ p_currentText = EmptyString
    /\ p_textBuffer = EmptyString
    /\ p_fallbackTag = EmptyString
    /\ lines = << >>
    /\ textToAppend = EmptyString
    /\ parsePc = "idle"
    /\ parseErr = "none"
    /\ script = << >>
    /\ lastSplit = NoSplit
    /\ parseReturns = << >>

\* What combineWavData has returned while it was not called.
NotCombined ==
    [called |-> FALSE, bytes |-> << >>, err |-> "none", index |-> 0, details |-> "none"]

NoCombine ==
    /\ combineInput = << >>
    /\ combined = NotCombined

\* No response of GetSpeakers, no SpeakerData (nil).
NoResponse == [kind |-> "none", speakers |-> << >>]

NoData == [StyleIDMap |-> << >>, DefaultStyleMap |-> << >>]

NotResolved ==
    [called |-> FALSE, count |-> 0, tag |-> NoTag, baseSpeakerTag |-> NoTag,
     index |-> 0, cacheBefore |-> << >>, id |-> 0, err |-> NoErr]

NotLoaded ==
    /\ speakersResponse = NoResponse
    /\ speakerData = NoData
    /\ loadErr = "none"
    /\ resolved = NotResolved

\* NewEngine: empty cache, a limiter of burst 1 whose token is there;
\* NewParser; no audio combined; LoadSpeakers not yet called.
Init ==
    /\ NewParser
    /\ NoCombine
    /\ NotLoaded
    /\ styleIDCache = << >>
    /\ limWait = 0
    /\ maxParallel \in 1..MaxParallelChoice
    /\ pc = "idle"
    /\ ctxDone = FALSE
    /\ segments = << >>
    /\ preCalcErrors = << >>
    /\ pos = 1
    /\ semaphore = 0
    /\ wg = 0
    /\ task = [k \in SegIdx |-> "none"]
    /\ result = [k \in SegIdx |-> NoResult]
    /\ resultsChan = << >>
    /\ orderedAudioDataList = << >>
    /\ runtimeErrors = << >>
    /\ finalAudioDataList = << >>
    /\ ret = RetNone
    /\ file = NoFile
    /\ backendCalls = {}
    /\ delivered = << >>
    /\ sinceGate = RateTicks
    /\ minGateGap = RateTicks
    /\ sinceLaunch = RateTicks

\* ----------------------------------------------------------------------
\* Execute, up to the dispatch loop
\* ----------------------------------------------------------------------

Running == pc \in {"loop", "pacing", "sem", "join"}

\* Execute: prepareSegments, and its two early returns.
Execute(parserSegments) ==
    /\ pc = "idle"
    /\ LET p == prepareSegments(parserSegments, styleIDCache) IN
       /\ styleIDCache' = p.cache
       /\ segments' = p.segments
       /\ preCalcErrors' = p.preCalcErrors
       /\ pc' = IF p.kind = "ok" THEN "loop" ELSE "done"
       /\ ret' = IF p.kind = "nosegments" THEN RetNoSegs
                 ELSE IF p.kind = "allfailed"
                 THEN ErrSynthesisBatch(Len(p.preCalcErrors), p.preCalcErrors)
                 ELSE ret
    /\ pos' = 1
    /\ UNCHANGED <<limWait, maxParallel, ctxDone, taskVars, gateHist, launchHist>>
    /\ UNCHANGED <<orderedAudioDataList, runtimeErrors, finalAudioDataList, file>>
    /\ UNCHANGED libVars

\* The caller cancels the run context.
Cancel ==
    /\ Running
    /\ ~ctxDone
    /\ ctxDone' = TRUE
    /\ UNCHANGED <<engineVars, loopVars, taskVars, outVars, gateHist, launchHist>>
    /\ UNCHANGED libVars

\* The clock; the limiter's token comes back RateTicks after it was taken.
Tick ==
    /\ Running
    /\ limWait' = IF limWait > 0 THEN limWait - 1 ELSE 0
    /\ sinceGate' = Min(RateTicks, sinceGate + 1)
    /\ sinceLaunch' = Min(RateTicks, sinceLaunch + 1)
    /\ UNCHANGED <<styleIDCache, maxParallel, loopVars, ctxDone, taskVars, outVars>>
    /\ UNCHANGED minGateGap
    /\ UNCHANGED libVars

\* ----------------------------------------------------------------------
\* runSynthesisBatch: the dispatch loop
\* ----------------------------------------------------------------------

\* Variant: only a segment without text is skipped.
Skipped_TextOnly(seg) == seg.Text = ""

\* The loop's skip test.
Skipped(seg) == seg.Text = "" \/ seg.Err # NoErr

AtSegment == pc = "loop" /\ pos <= Len(segments)

\* The range loop is over.
LoopEnd ==
    /\ pc = "loop"
    /\ pos > Len(segments)
    /\ pc' = "join"
    /\ UNCHANGED <<pos, segments, preCalcErrors>>
    /\ UNCHANGED <<engineVars, ctxDone, taskVars, outVars, gateHist, launchHist>>
    /\ UNCHANGED libVars

\* continue
LoopSkip ==
    /\ AtSegment
    /\ Skipped(segments[pos])
    /\ pos' = pos + 1
    /\ UNCHANGED <<pc, segments, preCalcErrors>>
    /\ UNCHANGED <<engineVars, ctxDone, taskVars, outVars, gateHist, launchHist>>
    /\ UNCHANGED libVars

\* limiter.Wait(ctx) returns nil: the token is taken.
GatePassed ==
    /\ limWait' = RateTicks
    /\ minGateGap' = Min(minGateGap, sinceGate)
    /\ sinceGate' = 0
    /\ pc' = "sem"
    /\ UNCHANGED <<pos, segments, preCalcErrors>>
    /\ UNCHANGED <<styleIDCache, maxParallel, ctxDone, taskVars, outVars, launchHist>>
    /\ UNCHANGED libVars

\* shouldBreak = true; break
BreakLoop ==
    /\ pc' = "join"
    /\ UNCHANGED <<pos, segments, preCalcErrors>>
    /\ UNCHANGED <<styleIDCache, maxParallel, ctxDone, taskVars, outVars, launchHist>>
    /\ UNCHANGED libVars

\* Variant: a limiter that never holds anyone back.
TokenReady_Always == TRUE

\* The limiter has its token.
TokenReady == limWait = 0

\* limiter.Wait on a context already cancelled: an error at once.
WaitCancelled ==
    /\ AtSegment
    /\ ~Skipped(segments[pos])
    /\ ctxDone
    /\ BreakLoop
    /\ UNCHANGED <<limWait, gateHist>>

\* limiter.Wait with the token there: no delay.
WaitPass ==
    /\ AtSegment
    /\ ~Skipped(segments[pos])
    /\ ~ctxDone
    /\ TokenReady
    /\ GatePassed

\* limiter.Wait reserves the token and sleeps until it is back.
WaitReserve ==
    /\ AtSegment
    /\ ~Skipped(segments[pos])
    /\ ~ctxDone
    /\ ~TokenReady
    /\ pc' = "pacing"
    /\ UNCHANGED <<pos, segments, preCalcErrors>>
    /\ UNCHANGED <<engineVars, ctxDone, taskVars, outVars, gateHist, launchHist>>
    /\ UNCHANGED libVars

\* The sleeping Wait's select: the timer's case.
TimerFired ==
    /\ pc = "pacing"
    /\ TokenReady
    /\ GatePassed

\* The sleeping Wait's select: ctx.Done().  The reservation is cancelled:
\* a token not yet due goes back, one already due is spent.
PacingCancelled ==
    /\ pc = "pacing"
    /\ ctxDone
    /\ limWait' = IF TokenReady THEN RateTicks ELSE limWait
    /\ BreakLoop
    /\ UNCHANGED gateHist

\* Variant: a dispatch attempt given up at the semaphore hands its token
\* back to the limiter.
SemCancelled_ReturnsToken ==
    /\ pc = "sem"
    /\ ctxDone
    /\ pc' = "join"
    /\ limWait' = 0
    /\ UNCHANGED <<pos, segments, preCalcErrors>>
    /\ UNCHANGED <<styleIDCache, maxParallel, ctxDone, taskVars, outVars, gateHist, launchHist>>
    /\ UNCHANGED libVars

\* select: case <-ctx.Done()
SemCancelled ==
    /\ pc = "sem"
    /\ ctxDone
    /\ pc' = "join"
    /\ UNCHANGED <<pos, segments, preCalcErrors>>
    /\ UNCHANGED <<engineVars, ctxDone, taskVars, outVars, gateHist, launchHist>>
    /\ UNCHANGED libVars

\* Variant: a semaphore without a capacity.
SlotFree_Unbounded == TRUE

\* A slot of the semaphore channel is free.
SlotFree == semaphore < maxParallel

\* The two backend calls of segment position k, as issued.
AudioQueryCall(k) ==
    [op |-> "audio_query", index |-> k - 1, text |-> segments[k].Text,
     styleID |-> segments[k].StyleID]

SynthesisCall(k) ==
    [op |-> "synthesis", index |-> k - 1, text |-> "", styleID |-> segments[k].StyleID]

\* select: case semaphore <- struct{}{}, then wg.Add(1) and the go
\* statement, whose goroutine runs up to its first backend call
\* (processSegment's seg.Err test, then RunAudioQuery).  Go picks among
\* the ready cases of a select at random, so this case can be taken while
\* ctx.Done() is ready too.
SemAcquire ==
    /\ pc = "sem"
    /\ SlotFree
    /\ semaphore' = semaphore + 1
    /\ wg' = wg + 1
    /\ IF segments[pos].Err # NoErr
       THEN /\ result' = [result EXCEPT ![pos] =
                            segmentResult(pos - 1, NoWav, segments[pos].Err)]
            /\ task' = [task EXCEPT ![pos] = "send"]
            /\ UNCHANGED backendCalls
       ELSE /\ backendCalls' = backendCalls \cup {AudioQueryCall(pos)}
            /\ task' = [task EXCEPT ![pos] = "query"]
            /\ UNCHANGED result
    /\ pos' = pos + 1
    /\ pc' = "loop"
    /\ sinceLaunch' = 0
    /\ UNCHANGED <<segments, preCalcErrors, resultsChan, delivered>>
    /\ UNCHANGED <<engineVars, ctxDone, outVars, gateHist>>
    /\ UNCHANGED libVars

\* ----------------------------------------------------------------------
\* The goroutine of one segment (k is its position, k-1 its index)
\* ----------------------------------------------------------------------

TaskUnchanged ==
    UNCHANGED <<engineVars, loopVars, ctxDone, outVars, gateHist, launchHist, libVars>>

\* A backend call answers only while its context lives: the client builds
\* its requests with the per-segment context, which the run context cancels.
CanSucceed == ~ctxDone

\* RunAudioQuery returns; on success RunSynthesis is called.
QueryReturn(k, ok) ==
    /\ task[k] = "query"
    /\ ok => CanSucceed
    /\ IF ok
       THEN /\ backendCalls' = backendCalls \cup {SynthesisCall(k)}
            /\ task' = [task EXCEPT ![k] = "synth"]
            /\ UNCHANGED result
       ELSE /\ result' = [result EXCEPT ![k] = segmentResult(k - 1, NoWav, ErrQuery(k - 1))]
            /\ task' = [task EXCEPT ![k] = "send"]
            /\ UNCHANGED backendCalls
    /\ UNCHANGED <<semaphore, wg, resultsChan, delivered>>
    /\ TaskUnchanged

\* RunSynthesis returns: an error or a payload.
SynthReturn(k, ok) ==
    /\ task[k] = "synth"
    /\ ok => CanSucceed
    /\ result' = [result EXCEPT ![k] =
                    IF ok THEN segmentResult(k - 1, Wav(k - 1), NoErr)
                    ELSE segmentResult(k - 1, NoWav, ErrSynth(k - 1))]
    /\ task' = [task EXCEPT ![k] = "send"]
    /\ UNCHANGED <<semaphore, wg, resultsChan, backendCalls, delivered>>
    /\ TaskUnchanged

\* Variant: the channel is sized to the parallelism, not the segment count.
ResultsCap_MaxParallel == maxParallel

\* make(chan segmentResult, len(segments))
ResultsCap == Len(segments)

\* resultsChan <- result
SendResult(k) ==
    /\ task[k] = "send"
    /\ Len(resultsChan) < ResultsCap
    /\ resultsChan' = Append(resultsChan, result[k])
    /\ delivered' = Append(delivered, result[k])
    /\ result' = [result EXCEPT ![k] = NoResult]
    /\ task' = [task EXCEPT ![k] = "release"]
    /\ UNCHANGED <<semaphore, wg, backendCalls>>
    /\ TaskUnchanged

\* Variant: the task ends without giving its slot back.
ReleaseSlot_KeepsSlot(k) ==
    /\ task[k] = "release"
    /\ task' = [task EXCEPT ![k] = "wgdone"]
    /\ UNCHANGED <<semaphore, wg, result, resultsChan, backendCalls, delivered>>
    /\ TaskUnchanged

\* deferred: cancel(), then <-semaphore
ReleaseSlot(k) ==
    /\ task[k] = "release"
    /\ semaphore > 0
    /\ semaphore' = semaphore - 1
    /\ task' = [task EXCEPT ![k] = "wgdone"]
    /\ UNCHANGED <<wg, result, resultsChan, backendCalls, delivered>>
    /\ TaskUnchanged

\* deferred: wg.Done()
WgDone(k) ==
    /\ task[k] = "wgdone"
    /\ wg' = wg - 1
    /\ task' = [task EXCEPT ![k] = "finished"]
    /\ UNCHANGED <<semaphore, result, resultsChan, backendCalls, delivered>>
    /\ TaskUnchanged

\* ----------------------------------------------------------------------
\* wg.Wait(), close and range over resultsChan, finalizeOutput
\* ----------------------------------------------------------------------

\* Variant: the join waits for every dispatchable segment, launched or not.
JoinReady_AllSegments ==
    \A k \in 1..Len(segments) : Skipped(segments[k]) \/ task[k] = "finished"

\* wg.Wait() returns.
JoinReady == wg = 0

Join(wellFormed, ioOk) ==
    /\ pc = "join"
    /\ JoinReady
    /\ LET d == drainResults(resultsChan, Len(segments))
           f == finalizeOutput(d.ordered, preCalcErrors, d.runtimeErrors, wellFormed, ioOk)
       IN /\ orderedAudioDataList' = d.ordered
          /\ runtimeErrors' = d.runtimeErrors
          /\ finalAudioDataList' = f.final
          /\ ret' = f.ret
          /\ file' = f.file
    /\ resultsChan' = << >>
    /\ pc' = "done"
    /\ UNCHANGED <<pos, segments, preCalcErrors>>
    /\ UNCHANGED <<semaphore, wg, task, result, backendCalls, delivered>>
    /\ UNCHANGED <<engineVars, ctxDone, gateHist, launchHist>>
    /\ UNCHANGED libVars

Dispatcher ==
    \/ LoopEnd
    \/ LoopSkip
    \/ WaitCancelled
    \/ WaitPass
    \/ WaitReserve
    \/ TimerFired
    \/ PacingCancelled
    \/ SemCancelled
    \/ SemAcquire
    \/ \E wellFormed \in BOOLEAN, ioOk \in BOOLEAN : Join(wellFormed, ioOk)

BackendReturn(k) ==
    \/ \E ok \in BOOLEAN : QueryReturn(k, ok)
    \/ \E ok \in BOOLEAN : SynthReturn(k, ok)

TaskLocal(k) ==
    \/ SendResult(k)
    \/ ReleaseSlot(k)
    \/ WgDone(k)

Next ==
    \/ \E ps \in ParseResults : Execute(ps)
    \/ Cancel
    \/ Tick
    \/ Dispatcher
    \/ \E k \in SegIdx : BackendReturn(k)
    \/ \E k \in SegIdx : TaskLocal(k)

Spec == Init /\ [][Next]_vars

\* Execute's goroutine and the task goroutines are scheduled; a backend
\* call is only assumed to return once the run context is cancelled (its
\* per-segment context is derived from it).  Nothing is assumed of the
\* clock: no timeout has to elapse.
LiveSpec ==
    /\ Init
    /\ [][Next]_vars
    /\ WF_vars(Dispatcher)
    /\ \A k \in SegIdx : WF_vars(TaskLocal(k))
    /\ \A k \in SegIdx : WF_vars(ctxDone /\ BackendReturn(k))

\* ----------------------------------------------------------------------
\* Package parser: strings are sequences of runes
\* ----------------------------------------------------------------------

\* The character budget of a segment, scaled down (the package variable
\* maxSegmentCharLength, 200 in the source).
maxSegmentCharLength == 3

\* The most lines of a script.
MaxLines == 2

\* The most atoms (a rune or an emotion annotation) of a line's text, in a
\* script of several lines and in a script of one line.
MaxAtoms == 3

MaxLongAtoms == 5

\* The four marks of the split test (U+3002, U+3001, U+FF01, U+FF1F),
\* written here as their ASCII counterparts.
Punctuation == {".", ",", "!", "?"}

\* What strings.TrimSpace trims and \s matches, among the model's runes.
Whitespace == {" "}

\* One bracketed word of EmotionTagsPattern; "E" stands for the word.
EmotionTag == <<"[", "E", "]">>

\* Two combined tags as a script writes them.
ScriptTagZ == <<"[", "z", "]", "[", "n", "]">>
ScriptTagM == <<"[", "m", "]", "[", "n", "]">>

RECURSIVE TrimLeft(_)
TrimLeft(s) ==
    IF s # EmptyString /\ Head(s) \in Whitespace THEN TrimLeft(Tail(s)) ELSE s

RECURSIVE TrimRight(_)
TrimRight(s) ==
    IF s # EmptyString /\ s[Len(s)] \in Whitespace
    THEN TrimRight(SubSeq(s, 1, Len(s) - 1))
    ELSE s

\* strings.TrimSpace
TrimSpace(s) == TrimRight(TrimLeft(s))

\* reEmotionParse.ReplaceAllString(text, ""): one pass from the left, the
\* matches not overlapping.
RECURSIVE ReplaceEmotion(_)
ReplaceEmotion(s) ==
    IF Len(s) < Len(EmotionTag) THEN s
    ELSE IF SubSeq(s, 1, Len(EmotionTag)) = EmotionTag
    THEN ReplaceEmotion(SubSeq(s, Len(EmotionTag) + 1, Len(s)))
    ELSE <<Head(s)>> \o ReplaceEmotion(Tail(s))

MinOf(S) == CHOOSE x \in S : \A y \in S : x <= y

MaxOf(S) == CHOOSE x \in S : \A y \in S : y <= x

\* \s* from position i: the first position that holds no whitespace.
SkipSpace(s, i) ==
    MinOf({k \in i..(Len(s) + 1) : k = Len(s) + 1 \/ s[k] \notin Whitespace})

\* \[.+?\] opened at position o: where it may close.
GroupEnds(s, o) == {j \in (o + 2)..Len(s) : s[j] = "]"}

NoMatch == [matched |-> FALSE, speakerTag |-> EmptyString,
            vvStyleTag |-> EmptyString, textPart |-> EmptyString]

\* reScriptParse.FindStringSubmatch: ^(\[.+?\])\s*(\[.+?\])\s*(.*)
\* Each lazy group closes at the first bracket that lets the rest match.
reScriptParse(s) ==
    LET firsts == IF Len(s) >= 1 /\ s[1] = "["
                  THEN {j \in GroupEnds(s, 1) :
                          LET k == SkipSpace(s, j + 1)
                          IN k <= Len(s) /\ s[k] = "[" /\ GroupEnds(s, k) # {}}
                  ELSE {}
    IN IF firsts = {} THEN NoMatch
       ELSE LET j1 == MinOf(firsts)
                k  == SkipSpace(s, j1 + 1)
                j2 == MinOf(GroupEnds(s, k))
                t  == SkipSpace(s, j2 + 1)
            IN [matched |-> TRUE,
                speakerTag |-> SubSeq(s, 1, j1),
                vvStyleTag |-> SubSeq(s, k, j2),
                textPart |-> SubSeq(s, t, Len(s))]

\* reBaseSpeakerTag.FindStringSubmatch: ^(\[.+?\]); the empty string when
\* there is no match.
reBaseSpeakerTag(tag) ==
    IF Len(tag) >= 1 /\ tag[1] = "[" /\ GroupEnds(tag, 1) # {}
    THEN SubSeq(tag, 1, MinOf(GroupEnds(tag, 1)))
    ELSE EmptyString

Segment(tag, baseTag, text) ==
    [SpeakerTag |-> tag, BaseSpeakerTag |-> baseTag, Text |-> text]

\* Variant: the emptiness test is missing.
addSegment_KeepEmpty(segs, tag, text) ==
    Append(segs, Segment(tag, reBaseSpeakerTag(tag), TrimSpace(ReplaceEmotion(text))))

\* textParser.addSegment, on the segment list segs.
addSegment(segs, tag, text) ==
    LET finalText == TrimSpace(ReplaceEmotion(text))
    IN IF finalText # EmptyString
       THEN Append(segs, Segment(tag, reBaseSpeakerTag(tag), finalText))
       ELSE segs

\* textParser.flushCurrentSegment: the segment list it leaves (the buffer
\* is reset by its callers' primed p_currentText).
flushCurrentSegment(segs, tag, text) ==
    IF Len(text) > 0 /\ tag # EmptyString THEN addSegment(segs, tag, text) ELSE segs

\* The positions of text that still fit a buffer of currentRuneCount runes.
Fitting(currentRuneCount, space, text) ==
    {i \in 1..Len(text) : currentRuneCount + space + i <= maxSegmentCharLength}

\* Variant: the first mark within budget, not the last.
splitTextByPunctuation_FirstMark(currentText, text) ==
    LET currentRuneCount == Len(currentText)
        space == IF currentRuneCount > 0 THEN 1 ELSE 0
        maxCapacity == maxSegmentCharLength - currentRuneCount - space
        marks == {i \in Fitting(currentRuneCount, space, text) : text[i] \in Punctuation}
    IN IF currentRuneCount + space + Len(text) <= maxSegmentCharLength
       THEN [partToAdd |-> text, remainder |-> EmptyString]
       ELSE IF maxCapacity <= 0
       THEN [partToAdd |-> EmptyString, remainder |-> text]
       ELSE IF marks # {}
       THEN [partToAdd |-> SubSeq(text, 1, MinOf(marks)),
             remainder |-> SubSeq(text, MinOf(marks) + 1, Len(text))]
       ELSE [partToAdd |-> SubSeq(text, 1, maxCapacity),
             remainder |-> SubSeq(text, maxCapacity + 1, Len(text))]

\* Variant: without a mark within budget nothing is cut, the whole text is
\* left for the next segment.
splitTextByPunctuation_NoHardCut(currentText, text) ==
    LET currentRuneCount == Len(currentText)
        space == IF currentRuneCount > 0 THEN 1 ELSE 0
        maxCapacity == maxSegmentCharLength - currentRuneCount - space
        marks == {i \in Fitting(currentRuneCount, space, text) : text[i] \in Punctuation}
    IN IF currentRuneCount + space + Len(text) <= maxSegmentCharLength
       THEN [partToAdd |-> text, remainder |-> EmptyString]
       ELSE IF maxCapacity <= 0 \/ marks = {}
       THEN [partToAdd |-> EmptyString, remainder |-> text]
       ELSE [partToAdd |-> SubSeq(text, 1, MaxOf(marks)),
             remainder |-> SubSeq(text, MaxOf(marks) + 1, Len(text))]

\* textParser.splitTextByPunctuation, on the buffer currentText.
splitTextByPunctuation(currentText, text) ==
    LET currentRuneCount == Len(currentText)
        space == IF currentRuneCount > 0 THEN 1 ELSE 0
        maxCapacity == maxSegmentCharLength - currentRuneCount - space
        \* the loop: i + 1 over the positions that fit, the last mark wins
        marks == {i \in Fitting(currentRuneCount, space, text) : text[i] \in Punctuation}
        bestSplitIndex == IF marks = {} THEN -1 ELSE MaxOf(marks)
    IN IF currentRuneCount + space + Len(text) <= maxSegmentCharLength
       THEN [partToAdd |-> text, remainder |-> EmptyString]
       ELSE IF maxCapacity <= 0
       THEN [partToAdd |-> EmptyString, remainder |-> text]
       ELSE IF bestSplitIndex > 0
       THEN [partToAdd |-> SubSeq(text, 1, bestSplitIndex),
             remainder |-> SubSeq(text, bestSplitIndex + 1, Len(text))]
       ELSE IF maxCapacity > 0 /\ maxCapacity < Len(text)
       THEN [partToAdd |-> SubSeq(text, 1, maxCapacity),
             remainder |-> SubSeq(text, maxCapacity + 1, Len(text))]
       ELSE [partToAdd |-> text, remainder |-> EmptyString]

\* Variant: the pending buffer is never emitted.
finishParsing_DropsBuffer(segs, tag, text, buffer, fallbackTag) ==
    flushCurrentSegment(segs, tag, text)

\* textParser.finishParsing: the segment list it leaves.
finishParsing(segs, tag, text, buffer, fallbackTag) ==
    LET flushed == flushCurrentSegment(segs, tag, text)
    IN IF buffer # EmptyString
       THEN IF Len(flushed) > 0
            THEN addSegment(flushed, flushed[Len(flushed)].SpeakerTag, buffer)
            ELSE IF fallbackTag # EmptyString
            THEN addSegment(flushed, fallbackTag, buffer)
            ELSE flushed
       ELSE flushed

\* ----------------------------------------------------------------------
\* The scripts Parse is called with
\* ----------------------------------------------------------------------

TextAtoms == {<<"a">>, <<".">>, <<" ">>, EmotionTag}

RECURSIVE Flatten(_)
Flatten(ss) == IF ss = << >> THEN EmptyString ELSE Head(ss) \o Flatten(Tail(ss))

\* The texts of lines: up to most atoms, no whitespace at either end.
LineTexts(most) ==
    {t \in {Flatten(q) : q \in UNION {[1..n -> TextAtoms] : n \in 0..most}} :
       TrimSpace(t) = t}

\* A line: a text, after a combined tag or not.  The untagged empty text
\* is the blank line.
ScriptLines(most) ==
    {tag \o t : tag \in {EmptyString, ScriptTagZ, ScriptTagM}, t \in LineTexts(most)}

\* strings.Split(scriptContent, "\n"): at least one line.  Scripts of up
\* to MaxLines lines, and scripts of one long line.
Scripts ==
    UNION {[1..n -> ScriptLines(MaxAtoms)] : n \in 1..MaxLines}
      \cup [1..1 -> ScriptLines(MaxLongAtoms)]

FallbackTags == {EmptyString, ScriptTagZ}

\* ----------------------------------------------------------------------
\* textParser.Parse
\* ----------------------------------------------------------------------

ParserUnchanged == UNCHANGED <<runVars, wavVars, catalogVars>>

\* Parse, up to its range loop.
Parse(scriptLines, fallbackTag) ==
    /\ parsePc \in {"idle", "returned"}
    /\ p_fallbackTag' = fallbackTag
    /\ p_segments' = << >>
    /\ lines' = scriptLines
    /\ script' = scriptLines
    /\ parsePc' = "lines"
    /\ UNCHANGED <<p_currentTag, p_currentText, p_textBuffer, textToAppend, parseErr, lastSplit>>
    /\ UNCHANGED parseReturns
    /\ ParserUnchanged

AtLine == parsePc = "lines" /\ lines # << >>

trimmedLine == TrimSpace(Head(lines))

\* processLine: the pending buffer goes in front of the line.
textToProcess ==
    IF p_textBuffer # EmptyString
    THEN p_textBuffer \o <<" ">> \o trimmedLine
    ELSE trimmedLine

\* if trimmedLine == "" { continue }
BlankLine ==
    /\ AtLine
    /\ trimmedLine = EmptyString
    /\ lines' = Tail(lines)
    /\ UNCHANGED <<p_segments, p_currentTag, p_currentText, p_textBuffer, p_fallbackTag>>
    /\ UNCHANGED <<textToAppend, parsePc, parseErr, script, lastSplit>>
    /\ UNCHANGED parseReturns
    /\ ParserUnchanged

\* speakerTag + vvStyleTag
newCombinedTag_SpeakerOnly(matches) == matches.speakerTag

newCombinedTag(matches) == matches.speakerTag \o matches.vvStyleTag

\* Variant: a tagged line flushes only when its tag differs.
TaggedLineFlushes_OnNewTag(tag) == p_currentTag # EmptyString /\ p_currentTag # tag

\* processTaggedLine: if p.currentTag != ""
TaggedLineFlushes(tag) == p_currentTag # EmptyString

\* processLine on a line reScriptParse matches: processTaggedLine, up to
\* the loop of appendAndSplitText.
TaggedLine ==
    /\ AtLine
    /\ trimmedLine # EmptyString
    /\ reScriptParse(textToProcess).matched
    /\ LET matches == reScriptParse(textToProcess)
           tag == newCombinedTag(matches)
       IN /\ p_segments' = IF TaggedLineFlushes(tag)
                           THEN flushCurrentSegment(p_segments, p_currentTag, p_currentText)
                           ELSE p_segments
          /\ p_currentText' = IF TaggedLineFlushes(tag) THEN EmptyString ELSE p_currentText
          /\ p_currentTag' = tag
          /\ textToAppend' = matches.textPart
    /\ p_textBuffer' = EmptyString
    /\ lines' = Tail(lines)
    /\ parsePc' = "append"
    /\ UNCHANGED <<p_fallbackTag, parseErr, script, lastSplit>>
    /\ UNCHANGED parseReturns
    /\ ParserUnchanged

\* Variant: an untagged line closes the open segment and starts another
\* under the same tag.
UntaggedLineOpen_NewSegment ==
    /\ AtLine
    /\ trimmedLine # EmptyString
    /\ ~reScriptParse(textToProcess).matched
    /\ p_currentTag # EmptyString
    /\ p_segments' = flushCurrentSegment(p_segments, p_currentTag, p_currentText)
    /\ p_currentText' = EmptyString
    /\ textToAppend' = textToProcess
    /\ p_textBuffer' = EmptyString
    /\ lines' = Tail(lines)
    /\ parsePc' = "append"
    /\ UNCHANGED <<p_currentTag, p_fallbackTag>>
    /\ UNCHANGED <<parseErr, script, lastSplit>>
    /\ UNCHANGED parseReturns
    /\ ParserUnchanged

\* processUntaggedLine with a tag open, up to the loop of
\* appendAndSplitText.
UntaggedLineOpen ==
    /\ AtLine
    /\ trimmedLine # EmptyString
    /\ ~reScriptParse(textToProcess).matched
    /\ p_currentTag # EmptyString
    /\ textToAppend' = textToProcess
    /\ p_textBuffer' = EmptyString
    /\ lines' = Tail(lines)
    /\ parsePc' = "append"
    /\ UNCHANGED <<p_segments, p_currentTag, p_currentText, p_fallbackTag>>
    /\ UNCHANGED <<parseErr, script, lastSplit>>
    /\ UNCHANGED parseReturns
    /\ ParserUnchanged

\* processUntaggedLine with no tag yet: the line is buffered.
UntaggedLineBuffered ==
    /\ AtLine
    /\ trimmedLine # EmptyString
    /\ ~reScriptParse(textToProcess).matched
    /\ p_currentTag = EmptyString
    /\ p_textBuffer' = textToProcess
    /\ lines' = Tail(lines)
    /\ UNCHANGED <<p_segments, p_currentTag, p_currentText, p_fallbackTag>>
    /\ UNCHANGED <<textToAppend, parsePc, parseErr, script, lastSplit>>
    /\ UNCHANGED parseReturns
    /\ ParserUnchanged

\* One iteration of the loop of appendAndSplitText.
AppendIteration ==
    /\ parsePc = "append"
    /\ textToAppend # EmptyString
    /\ LET sp == splitTextByPunctuation(p_currentText, textToAppend)
           written == IF sp.partToAdd # EmptyString
                      THEN (IF Len(p_currentText) > 0
                            THEN p_currentText \o <<" ">>
                            ELSE p_currentText) \o sp.partToAdd
                      ELSE p_currentText
       IN /\ lastSplit' = [called |-> TRUE, count |-> Len(p_currentText),
                           text |-> textToAppend,
                           partToAdd |-> sp.partToAdd, remainder |-> sp.remainder]
          /\ IF sp.remainder # EmptyString
             THEN /\ p_segments' = flushCurrentSegment(p_segments, p_currentTag, written)
                  /\ p_currentText' = EmptyString
                  /\ textToAppend' = sp.remainder
             ELSE /\ p_currentText' = written
                  /\ textToAppend' = EmptyString
                  /\ UNCHANGED p_segments
    /\ UNCHANGED <<p_currentTag, p_textBuffer, p_fallbackTag, lines, parsePc, parseErr, script>>
    /\ UNCHANGED parseReturns
    /\ ParserUnchanged

\* for textToAppend != "": the loop is over.
AppendDone ==
    /\ parsePc = "append"
    /\ textToAppend = EmptyString
    /\ parsePc' = "lines"
    /\ UNCHANGED <<p_segments, p_currentTag, p_currentText, p_textBuffer, p_fallbackTag>>
    /\ UNCHANGED <<lines, textToAppend, parseErr, script, lastSplit>>
    /\ UNCHANGED parseReturns
    /\ ParserUnchanged

\* The lines are over: finishParsing, return p.segments, nil.
FinishParsing ==
    /\ parsePc = "lines"
    /\ lines = << >>
    /\ p_segments' = finishParsing(p_segments, p_currentTag, p_currentText,
                                   p_textBuffer, p_fallbackTag)
    /\ p_currentText' = EmptyString
    /\ parsePc' = "returned"
    /\ parseErr' = "nil"
    /\ parseReturns' = Append(parseReturns,
                              [script |-> script, fallbackTag |-> p_fallbackTag,
                               segments |-> p_segments'])
    /\ UNCHANGED <<p_currentTag, p_textBuffer, p_fallbackTag>>
    /\ UNCHANGED <<lines, textToAppend, script, lastSplit>>
    /\ ParserUnchanged

\* The caller hands Parse a script and a fallback tag.
ParseCall ==
    /\ parsePc = "idle"
    /\ \E scriptLines \in Scripts, fallbackTag \in FallbackTags :
          Parse(scriptLines, fallbackTag)

ParserNext ==
    \/ ParseCall
    \/ BlankLine
    \/ TaggedLine
    \/ UntaggedLineOpen
    \/ UntaggedLineBuffered
    \/ AppendIteration
    \/ AppendDone
    \/ FinishParsing

\* One engine, its parser fresh.
ParserInit == Init /\ maxParallel = 1

ParserSpec == ParserInit /\ [][ParserNext]_vars

\* The most calls of Parse on one parser.
MaxParseCalls == 2

\* The scripts of a parser that is called again: one line.
ReuseScripts == [1..1 -> ScriptLines(1)]

\* The engine's parser is called once per Execute, with the script and
\* the fallback tag of that call.
ParseAgainCall ==
    /\ parsePc \in {"idle", "returned"}
    /\ Len(parseReturns) < MaxParseCalls
    /\ \E scriptLines \in ReuseScripts, fallbackTag \in FallbackTags :
          Parse(scriptLines, fallbackTag)

ReuseNext ==
    \/ ParseAgainCall
    \/ BlankLine
    \/ TaggedLine
    \/ UntaggedLineOpen
    \/ UntaggedLineBuffered
    \/ AppendIteration
    \/ AppendDone
    \/ FinishParsing

ReuseSpec == ParserInit /\ [][ReuseNext]_vars

\* ----------------------------------------------------------------------
\* combineWavData: payloads are sequences of bytes
\* ----------------------------------------------------------------------

\* The most payloads of a list, and the most sample bytes of a payload.
MaxPayloads == 2

MaxSampleLen == 2

RiffChunkIDSize == 4

RiffChunkSizeSize == 4

WaveIDSize == 4

DataChunkIDSize == 4

DataChunkSizeSize == 4

DataChunkHeaderSize == DataChunkIDSize + DataChunkSizeSize

WavRiffHeaderSize == RiffChunkIDSize + RiffChunkSizeSize + WaveIDSize

RiffChunkSizeOffset == RiffChunkIDSize

\* The chunk identifiers, as their ASCII bytes.
RiffID == <<82, 73, 70, 70>>
WaveID == <<87, 65, 86, 69>>
FmtID  == <<102, 109, 116, 32>>
DataID == <<100, 97, 116, 97>>
ListID == <<76, 73, 83, 84>>

\* binary.LittleEndian.PutUint32(uint32(v)) and binary.LittleEndian.Uint32,
\* for the sizes below 2^31 (which uint32(v) leaves as they are).
PutUint32(v) ==
    <<v % 256, (v \div 256) % 256, (v \div 65536) % 256, (v \div 16777216) % 256>>

Uint32(b) == b[1] + 256 * b[2] + 65536 * b[3] + 16777216 * b[4]

\* wavBytes[from:to], offsets counted from 0 as the source does.
Slice(wavBytes, from, to) == SubSeq(wavBytes, from + 1, to)

\* copy(buf[offset:], src)
CopyAt(buf, offset, src) ==
    [i \in 1..Len(buf) |->
       IF i > offset /\ i <= offset + Len(src) THEN src[i - offset] ELSE buf[i]]

NoExtractErr == [kind |-> "nil", Index |-> 0, Details |-> "none"]

ErrInvalidWAVHeader(index, details) ==
    [kind |-> "invalidheader", Index |-> index, Details |-> details]

\* Variant: an odd-length chunk is skipped without its padding byte.
RECURSIVE scanChunks_NoPadding(_, _, _, _)
scanChunks_NoPadding(wavBytes, index, offset, fmtChunkFound) ==
    LET notFound == [fmtChunkFound |-> fmtChunkFound, dataChunkFound |-> FALSE,
                     dataChunkStart |-> 0, audioData |-> << >>,
                     err |-> [kind |-> "nil", Index |-> 0, Details |-> "none"]]
    IN IF ~(offset < Len(wavBytes)) THEN notFound
       ELSE IF offset + DataChunkHeaderSize > Len(wavBytes) THEN notFound
       ELSE LET chunkID   == Slice(wavBytes, offset, offset + DataChunkIDSize)
                chunkSize == Uint32(Slice(wavBytes, offset + DataChunkIDSize,
                                          offset + DataChunkHeaderSize))
                fmtNow    == fmtChunkFound \/ chunkID = FmtID
                audioDataStart == offset + DataChunkHeaderSize
                audioDataEnd   == audioDataStart + chunkSize
            IN IF chunkID = DataID
               THEN IF audioDataEnd > Len(wavBytes)
                    THEN [fmtChunkFound |-> fmtNow, dataChunkFound |-> TRUE,
                          dataChunkStart |-> offset, audioData |-> << >>,
                          err |-> [kind |-> "invalidheader", Index |-> index,
                                   Details |-> "toolarge"]]
                    ELSE [fmtChunkFound |-> fmtNow, dataChunkFound |-> TRUE,
                          dataChunkStart |-> offset,
                          audioData |-> Slice(wavBytes, audioDataStart, audioDataEnd),
                          err |-> [kind |-> "nil", Index |-> 0, Details |-> "none"]]
               ELSE scanChunks_NoPadding(wavBytes, index,
                                         offset + DataChunkHeaderSize + chunkSize, fmtNow)

\* The chunk loop of extractAudioData from offset on: whether the fmt and
\* data chunks were met, where the data chunk starts, its bytes, and the
\* error the loop returned with.
RECURSIVE scanChunks(_, _, _, _)
scanChunks(wavBytes, index, offset, fmtChunkFound) ==
    LET notFound == [fmtChunkFound |-> fmtChunkFound, dataChunkFound |-> FALSE,
                     dataChunkStart |-> 0, audioData |-> << >>, err |-> NoExtractErr]
    IN IF ~(offset < Len(wavBytes)) THEN notFound
       ELSE IF offset + DataChunkHeaderSize > Len(wavBytes) THEN notFound
       ELSE LET chunkID   == Slice(wavBytes, offset, offset + DataChunkIDSize)
                chunkSize == Uint32(Slice(wavBytes, offset + DataChunkIDSize,
                                          offset + DataChunkHeaderSize))
                fmtNow    == fmtChunkFound \/ chunkID = FmtID
                audioDataStart == offset + DataChunkHeaderSize
                audioDataEnd   == audioDataStart + chunkSize
            IN IF chunkID = DataID
               THEN IF audioDataEnd > Len(wavBytes)
                    THEN [fmtChunkFound |-> fmtNow, dataChunkFound |-> TRUE,
                          dataChunkStart |-> offset, audioData |-> << >>,
                          err |-> ErrInvalidWAVHeader(index, "toolarge")]
                    ELSE [fmtChunkFound |-> fmtNow, dataChunkFound |-> TRUE,
                          dataChunkStart |-> offset,
                          audioData |-> Slice(wavBytes, audioDataStart, audioDataEnd),
                          err |-> NoExtractErr]
               ELSE scanChunks(wavBytes, index,
                               offset + DataChunkHeaderSize + chunkSize
                                 + (IF chunkSize % 2 # 0 THEN 1 ELSE 0),
                               fmtNow)

\* extractAudioData
extractAudioData(wavBytes, index) ==
    LET failed(e) == [formatHeader |-> << >>, audioData |-> << >>, err |-> e]
    IN IF Len(wavBytes) < WavRiffHeaderSize
       THEN failed(ErrInvalidWAVHeader(index, "short"))
       ELSE LET s == scanChunks(wavBytes, index, WavRiffHeaderSize, FALSE)
            IN IF s.err # NoExtractErr THEN failed(s.err)
               ELSE IF ~s.fmtChunkFound \/ ~s.dataChunkFound
               THEN failed(ErrInvalidWAVHeader(index, "missing"))
               ELSE IF Len(s.audioData) #
                         Uint32(Slice(wavBytes, s.dataChunkStart + DataChunkIDSize,
                                      s.dataChunkStart + DataChunkHeaderSize))
               THEN failed(ErrInvalidWAVHeader(index, "mismatch"))
               ELSE [formatHeader |-> Slice(wavBytes, 0, s.dataChunkStart),
                     audioData |-> s.audioData,
                     err |-> NoExtractErr]

\* Variant: the size of the whole file, the 8 bytes not taken off.
fileSize_WholeFile(totalAudioSize, finalWavHeaderSize) ==
    totalAudioSize + finalWavHeaderSize

\* buildCombinedWav: fileSize
fileSize(totalAudioSize, finalWavHeaderSize) ==
    totalAudioSize + finalWavHeaderSize - (RiffChunkIDSize + WaveIDSize)

\* Variant: the data chunk's size field is left as allocated.
buildCombinedWav_NoDataSize(formatHeader, combinedAudioData, totalAudioSize) ==
    LET dataChunkStart == Len(formatHeader)
        finalWavHeaderSize == dataChunkStart + DataChunkHeaderSize
        made == [i \in 1..(finalWavHeaderSize + totalAudioSize) |-> 0]
        b1 == CopyAt(made, 0, formatHeader)
        b2 == CopyAt(b1, dataChunkStart, DataID)
        b3 == CopyAt(b2, RiffChunkSizeOffset,
                     PutUint32(fileSize(totalAudioSize, finalWavHeaderSize)))
    IN CopyAt(b3, finalWavHeaderSize, combinedAudioData)

\* Variant: the data chunk header is written where a 44-byte header has it.
buildCombinedWav_FixedOffset(formatHeader, combinedAudioData, totalAudioSize) ==
    LET dataChunkStart == WavRiffHeaderSize + DataChunkHeaderSize + 16
        dataChunkSizeOffset == dataChunkStart + DataChunkIDSize
        finalWavHeaderSize == Len(formatHeader) + DataChunkHeaderSize
        made == [i \in 1..(finalWavHeaderSize + totalAudioSize) |-> 0]
        b1 == CopyAt(made, 0, formatHeader)
        b2 == CopyAt(b1, dataChunkStart, DataID)
        b3 == CopyAt(b2, RiffChunkSizeOffset,
                     PutUint32(fileSize(totalAudioSize, finalWavHeaderSize)))
        b4 == CopyAt(b3, dataChunkSizeOffset, PutUint32(totalAudioSize))
    IN CopyAt(b4, finalWavHeaderSize, combinedAudioData)

\* buildCombinedWav
buildCombinedWav(formatHeader, combinedAudioData, totalAudioSize) ==
    LET dataChunkStart == Len(formatHeader)
        dataChunkSizeOffset == dataChunkStart + DataChunkIDSize
        finalWavHeaderSize == dataChunkStart + DataChunkHeaderSize
        made == [i \in 1..(finalWavHeaderSize + totalAudioSize) |-> 0]
        b1 == CopyAt(made, 0, formatHeader)
        b2 == CopyAt(b1, dataChunkStart, DataID)
        b3 == CopyAt(b2, RiffChunkSizeOffset,
                     PutUint32(fileSize(totalAudioSize, finalWavHeaderSize)))
        b4 == CopyAt(b3, dataChunkSizeOffset, PutUint32(totalAudioSize))
    IN CopyAt(b4, finalWavHeaderSize, combinedAudioData)

\* Variant: a payload's samples go in front of those already written.
writeAudio_InFront(audioDataWriter, currentAudioData) ==
    currentAudioData \o audioDataWriter

\* audioDataWriter.Write(currentAudioData)
writeAudio(audioDataWriter, currentAudioData) ==
    audioDataWriter \o currentAudioData

Combined(bytes, err) ==
    [called |-> TRUE, bytes |-> bytes, err |-> err.kind,
     index |-> err.Index, details |-> err.Details]

ErrNoAudioData == [kind |-> "noaudio", Index |-> 0, Details |-> "none"]

\* Variant: the format header of each later payload replaces the first's.
RECURSIVE combineRest_LastHeader(_, _, _, _, _)
combineRest_LastHeader(wavDataList, i, formatHeader, audioDataWriter, totalAudioSize) ==
    IF ~(i < Len(wavDataList))
    THEN Combined(buildCombinedWav(formatHeader, audioDataWriter, totalAudioSize),
                  NoExtractErr)
    ELSE LET x == extractAudioData(wavDataList[i + 1], i + 1)
         IN IF x.err # NoExtractErr
            THEN Combined(<< >>, x.err)
            ELSE combineRest_LastHeader(wavDataList, i + 1, x.formatHeader,
                                        writeAudio(audioDataWriter, x.audioData),
                                        totalAudioSize + Len(x.audioData))

\* The loop of combineWavData over the second and later payloads, at
\* position i (counted from 0), and the build that follows it.
RECURSIVE combineRest(_, _, _, _, _)
combineRest(wavDataList, i, formatHeader, audioDataWriter, totalAudioSize) ==
    IF ~(i < Len(wavDataList))
    THEN Combined(buildCombinedWav(formatHeader, audioDataWriter, totalAudioSize),
                  NoExtractErr)
    ELSE LET x == extractAudioData(wavDataList[i + 1], i + 1)
         IN IF x.err # NoExtractErr
            THEN Combined(<< >>, x.err)
            ELSE combineRest(wavDataList, i + 1, formatHeader,
                             writeAudio(audioDataWriter, x.audioData),
                             totalAudioSize + Len(x.audioData))

\* Variant: a payload that cannot be read is left out and the rest combined.
combineWavData_SkipMalformed(wavDataList) ==
    LET readable(p) == extractAudioData(p, 0).err = NoExtractErr
        good == SelectSeq(wavDataList, readable)
    IN IF Len(good) = 0
       THEN Combined(<< >>, ErrNoAudioData)
       ELSE LET first == extractAudioData(good[1], 0)
            IN combineRest(good, 1, first.formatHeader,
                           writeAudio(<< >>, first.audioData),
                           Len(first.audioData))

\* combineWavData
combineWavData(wavDataList) ==
    IF Len(wavDataList) = 0
    THEN Combined(<< >>, ErrNoAudioData)
    ELSE LET first == extractAudioData(wavDataList[1], 0)
         IN IF first.err # NoExtractErr
            THEN Combined(<< >>, first.err)
            ELSE combineRest(wavDataList, 1, first.formatHeader,
                             writeAudio(<< >>, first.audioData),
                             Len(first.audioData))

\* ----------------------------------------------------------------------
\* The payloads combineWavData is called with
\* ----------------------------------------------------------------------

SampleBytes == {7, 9}

SampleRuns == UNION {[1..n -> SampleBytes] : n \in 0..MaxSampleLen}

\* A chunk: identifier, declared length, bytes.
Chunk(id, declared, data) == id \o PutUint32(declared) \o data

\* A PCM format description: mono, 24000 Hz, 16 bits.
FmtChunk == Chunk(FmtID, 16, <<1, 0, 1, 0, 192, 93, 0, 0, 128, 187, 0, 0, 2, 0, 16, 0>>)

\* A metadata chunk between fmt and data: none, one of even length, one of
\* odd length with its padding byte.
MetaChunk(meta) ==
    IF meta = "even" THEN Chunk(ListID, 2, <<1, 2>>)
    ELSE IF meta = "odd" THEN Chunk(ListID, 1, <<1>>) \o <<0>>
    ELSE << >>

\* What follows the data chunk: nothing, or one more chunk.
TrailerChunk(trailer) == IF trailer THEN Chunk(ListID, 2, <<3, 4>>) ELSE << >>

\* A byte after the samples that the data chunk does not declare.
StrayBytes(stray) == IF stray THEN <<9>> ELSE << >>

\* The payloads extractAudioData accepts, by their parts: the samples, the
\* metadata, whether the outer size field holds the file's length minus 8
\* (or 0), whether a chunk follows the samples, whether an undeclared
\* byte follows them.
PayloadParts ==
    {[samples |-> s, meta |-> "none", sizeOk |-> ok, trailer |-> FALSE, stray |-> FALSE] :
        s \in SampleRuns, ok \in BOOLEAN}
    \cup {[samples |-> s, meta |-> m, sizeOk |-> TRUE, trailer |-> FALSE, stray |-> FALSE] :
        s \in SampleRuns, m \in {"even", "odd"}}
    \cup {[samples |-> s, meta |-> "none", sizeOk |-> TRUE, trailer |-> tr, stray |-> ~tr] :
        s \in SampleRuns, tr \in BOOLEAN}

RiffHeader(size) == RiffID \o PutUint32(size) \o WaveID

\* The bytes before the data chunk.
FormatRegion(d, size) == RiffHeader(size) \o FmtChunk \o MetaChunk(d.meta)

Payload(d) ==
    LET rest == Chunk(DataID, Len(d.samples), d.samples)
                  \o StrayBytes(d.stray) \o TrailerChunk(d.trailer)
        size == IF d.sizeOk
                THEN Len(FormatRegion(d, 0)) + Len(rest) - (RiffChunkIDSize + RiffChunkSizeSize)
                ELSE 0
    IN FormatRegion(d, size) \o rest

\* Payloads extractAudioData rejects: no full outer header, no fmt chunk,
\* no data chunk, a data chunk declaring more bytes than there are, the
\* fmt chunk after the data chunk.
MalformedPayloads ==
    {RiffID \o PutUint32(0),
     RiffHeader(0) \o Chunk(DataID, 1, <<7>>),
     RiffHeader(0) \o FmtChunk,
     RiffHeader(0) \o FmtChunk \o Chunk(DataID, 3, <<7>>),
     RiffHeader(0) \o Chunk(DataID, 1, <<7>>) \o FmtChunk}

Payloads == {Payload(d) : d \in PayloadParts} \cup MalformedPayloads

PayloadLists == UNION {[1..n -> Payloads] : n \in 0..MaxPayloads}

\* combineWavData is called with a list of payloads.
CombineCall ==
    /\ ~combined.called
    /\ \E list \in PayloadLists :
         /\ combineInput' = list
         /\ combined' = combineWavData(list)
    /\ UNCHANGED <<runVars, parserVars, catalogVars>>

\* Engine.finalizeOutput from its call of CombineWavData on, with the list
\* of payloads it built (never empty there): the combine error is returned,
\* or the bytes are written to the output file.
FinalizeCombined(ioOk) ==
    /\ combined.called
    /\ Len(combineInput) > 0
    /\ ret = RetNone
    /\ finalAudioDataList' = combineInput
    /\ IF combined.err # "nil"
       THEN ret' = RetCombine /\ UNCHANGED file
       ELSE IF ~ioOk
       THEN ret' = RetWrite /\ UNCHANGED file
       ELSE ret' = RetNil /\ file' = [written |-> TRUE, data |-> combined.bytes]
    /\ UNCHANGED <<engineVars, loopVars, ctxDone, taskVars, gateHist, launchHist>>
    /\ UNCHANGED <<orderedAudioDataList, runtimeErrors>>
    /\ UNCHANGED libVars

WavNext ==
    \/ CombineCall
    \/ \E ioOk \in BOOLEAN : FinalizeCombined(ioOk)

WavInit == Init /\ maxParallel = 1

WavSpec == WavInit /\ [][WavNext]_vars

\* ----------------------------------------------------------------------
\* Package speaker: LoadSpeakers, and getStyleID on what it loaded
\* ----------------------------------------------------------------------

\* The most speakers of a /speakers response, the most styles of one
\* speaker, the most calls of getStyleID on one engine.
MaxSpeakers == 2

MaxStyles == 2

MaxCalls == 2

SupportedSpeakers ==
    <<[APIName |-> "Shikoku Metan", ToolTag |-> <<"metan">>],
      [APIName |-> "Zundamon", ToolTag |-> <<"zundamon">>]>>

VvTagNormal == <<"normal">>

VvTagSexy == <<"sexy">>

\* Two of the five styles of the source's table.
StyleApiNameToToolTag == ("Normal" :> VvTagNormal) @@ ("Sexy" :> VvTagSexy)

\* LoadSpeakers, step 1.
apiNameToToolTag ==
    [name \in {SupportedSpeakers[i].APIName : i \in 1..Len(SupportedSpeakers)} |->
       (CHOOSE i \in 1..Len(SupportedSpeakers) : SupportedSpeakers[i].APIName = name) ]

ToolTagOf(name) == SupportedSpeakers[apiNameToToolTag[name]].ToolTag

\* Variant: the default style is recorded without its id.
RECURSIVE addStyles_DefaultWithoutID(_, _, _, _)
addStyles_DefaultWithoutID(d, toolTag, styles, k) ==
    IF k > Len(styles) THEN d
    ELSE LET style == styles[k] IN
         IF style.Name \notin DOMAIN StyleApiNameToToolTag
         THEN addStyles_DefaultWithoutID(d, toolTag, styles, k + 1)
         ELSE LET styleTag    == StyleApiNameToToolTag[style.Name]
                  combinedTag == toolTag \o styleTag
                  d2 == IF styleTag = VvTagNormal
                        THEN [d EXCEPT !.DefaultStyleMap = (toolTag :> combinedTag) @@ @]
                        ELSE [d EXCEPT !.StyleIDMap = (combinedTag :> style.ID) @@ @]
              IN addStyles_DefaultWithoutID(d2, toolTag, styles, k + 1)

\* LoadSpeakers, the loop over the styles of one supported speaker.
RECURSIVE addStyles(_, _, _, _)
addStyles(d, toolTag, styles, k) ==
    IF k > Len(styles) THEN d
    ELSE LET style == styles[k] IN
         IF style.Name \notin DOMAIN StyleApiNameToToolTag
         THEN addStyles(d, toolTag, styles, k + 1)
         ELSE LET styleTag    == StyleApiNameToToolTag[style.Name]
                  combinedTag == toolTag \o styleTag
                  d1 == [d EXCEPT !.StyleIDMap = (combinedTag :> style.ID) @@ @]
                  d2 == IF styleTag = VvTagNormal
                        THEN [d1 EXCEPT !.DefaultStyleMap = (toolTag :> combinedTag) @@ @]
                        ELSE d1
              IN addStyles(d2, toolTag, styles, k + 1)

\* LoadSpeakers, the loop over the speakers of the response.
RECURSIVE addSpeakers(_, _, _)
addSpeakers(d, vvSpeakers, k) ==
    IF k > Len(vvSpeakers) THEN d
    ELSE LET spk == vvSpeakers[k] IN
         IF spk.Name \notin DOMAIN apiNameToToolTag
         THEN addSpeakers(d, vvSpeakers, k + 1)
         ELSE addSpeakers(addStyles(d, ToolTagOf(spk.Name), spk.Styles, 1),
                          vvSpeakers, k + 1)

\* Variant: the check of the required defaults finds nothing missing.
missingDefaults_None(d) == << >>

\* LoadSpeakers, step 5: the supported speakers without a default style.
missingDefaults(d) ==
    LET missing(mapping) == mapping.ToolTag \notin DOMAIN d.DefaultStyleMap
        lacking == SelectSeq(SupportedSpeakers, missing)
    IN [i \in 1..Len(lacking) |-> lacking[i].APIName]

\* LoadSpeakers: the SpeakerData (NoData is nil) and the error.
LoadSpeakers(response) ==
    IF response.kind = "error"
    THEN [data |-> NoData, err |-> "fetch"]
    ELSE IF response.kind = "badjson"
    THEN [data |-> NoData, err |-> "ErrInvalidJSON"]
    ELSE LET d == addSpeakers(NoData, response.speakers, 1)
         IN IF Len(missingDefaults(d)) > 0
            THEN [data |-> NoData, err |-> "ErrMissingRequiredField"]
            ELSE [data |-> d, err |-> "nil"]

\* What GetSpeakers may return: an error, bytes that are no JSON list of
\* speakers, or a list of speakers with their styles.
StyleNames == {"Normal", "Sexy", "Other"}

StyleIDs == {2, 3}

VVStyles == [Name : StyleNames, ID : StyleIDs]

StyleLists == UNION {[1..n -> VVStyles] : n \in 0..MaxStyles}

SpeakerNames == {"Shikoku Metan", "Zundamon", "Other"}

VVSpeaker == [Name : SpeakerNames, Styles : StyleLists]

SpeakersResponses ==
    {[kind |-> "error", speakers |-> << >>], [kind |-> "badjson", speakers |-> << >>]}
    \cup {[kind |-> "ok", speakers |-> l] :
            l \in UNION {[1..n -> VVSpeaker] : n \in 0..MaxSpeakers}}

\* The tags getStyleID is called with.
QueryTags == {TagZundaNormal, TagZundaSexy, TagMetanNormal, TagGhostNormal}

CatalogUnchanged ==
    UNCHANGED <<limWait, maxParallel, loopVars, ctxDone, taskVars, outVars,
                gateHist, launchHist, parserVars, wavVars>>

\* LoadSpeakers is called.
LoadSpeakersCall ==
    /\ speakersResponse = NoResponse
    /\ \E response \in SpeakersResponses :
         /\ speakersResponse' = response
         /\ speakerData' = LoadSpeakers(response).data
         /\ loadErr' = LoadSpeakers(response).err
    /\ UNCHANGED <<styleIDCache, resolved>>
    /\ CatalogUnchanged

\* getStyleID is called on the engine built with the loaded SpeakerData;
\* the parser's base tag is the tag's first bracket group, or empty.
GetStyleIDCall ==
    /\ loadErr = "nil"
    /\ resolved.count < MaxCalls
    /\ \E tag \in QueryTags :
       \E baseSpeakerTag \in {BaseSpeakerTagOf(tag), NoTag} :
         LET r == getStyleIDWith(speakerData, styleIDCache, tag, baseSpeakerTag,
                                 resolved.count)
         IN /\ styleIDCache' = r.cache
            /\ resolved' = [called |-> TRUE, count |-> resolved.count + 1,
                            tag |-> tag, baseSpeakerTag |-> baseSpeakerTag,
                            index |-> resolved.count,
                            cacheBefore |-> styleIDCache,
                            id |-> r.id, err |-> r.err]
    /\ UNCHANGED <<speakersResponse, speakerData, loadErr>>
    /\ CatalogUnchanged

CatalogNext ==
    \/ LoadSpeakersCall
    \/ GetStyleIDCall

CatalogInit == Init /\ maxParallel = 1

CatalogSpec == CatalogInit /\ [][CatalogNext]_vars

\* ----------------------------------------------------------------------
\* Properties
\* ----------------------------------------------------------------------

NSegs == Len(segments)

\* What the catalog can resolve, read off its two maps.
Resolvable(tag) ==
    \/ tag \in DOMAIN StyleIDMap
    \/ /\ BaseSpeakerTagOf(tag) \in DOMAIN DefaultStyleMap
       /\ DefaultStyleMap[BaseSpeakerTagOf(tag)] \in DOMAIN StyleIDMap

Unresolved == {k \in 1..NSegs : ~Resolvable(segments[k].SpeakerTag)}

Launched == {k \in SegIdx : task[k] # "none"}

\* Segment k's task delivered an audio payload.
Produced(k) ==
    \E j \in 1..Len(delivered) :
        delivered[j].index = k - 1 /\ delivered[j].wavData # NoWav

FailedResults == {j \in 1..Len(delivered) : delivered[j].err # NoErr}

NeverLaunched == {k \in 1..NSegs : ~Skipped(segments[k]) /\ task[k] = "none"}

SeqToSet(q) == {q[j] : j \in 1..Len(q)}

\* C1: the output file is written only if every parsed segment produced
\* an audio payload; a run in which some segment produced none writes no
\* file and returns an error.
C1_AllOrNothing ==
    /\ file.written => \A k \in 1..NSegs : Produced(k)
    /\ (pc = "done" /\ \E k \in 1..NSegs : ~Produced(k))
          => (~file.written /\ ret.kind # "nil")

\* C2: the payload list handed to the assembler is in segment order,
\* whatever the order in which the tasks completed.
C2_PayloadsInSegmentOrder ==
    \A a, b \in 1..Len(finalAudioDataList) :
        a < b => finalAudioDataList[a].seg < finalAudioDataList[b].seg

\* A run whose payloads reached the assembler although a later segment's
\* task completed before an earlier one's.
C2_Witness ==
    /\ pc = "done"
    /\ Len(finalAudioDataList) >= 2
    /\ \E a, b \in 1..Len(delivered) :
          a < b /\ delivered[a].index > delivered[b].index

\* The tasks that hold a semaphore slot: launched, slot not yet given
\* back (every backend round-trip happens in here).
InFlight == {k \in SegIdx : task[k] \in {"query", "synth", "send", "release"}}

\* C3: at every moment at most MaxParallelSegments tasks are in flight.
C3_BoundedInFlight == Cardinality(InFlight) <= maxParallel

\* The gate is full and holds the dispatcher back.
C3_Witness ==
    /\ pc = "sem"
    /\ Cardinality(InFlight) = maxParallel
    /\ \E k \in InFlight : task[k] \in {"query", "synth"}

\* C4: once the run context is cancelled no further task is launched.
C4_NoLaunchAfterCancel ==
    [][ctxDone => \A k \in SegIdx : task[k] = "none" => task'[k] = "none"]_vars

\* C5: a run cancelled before its dispatch is complete returns, whether
\* or not the clock advances.
C5_CancelledRunReturns == (ctxDone /\ Running) ~> (pc = "done")

\* A cancelled run that returned with a dispatchable segment never launched.
C5_Witness ==
    /\ pc = "done"
    /\ ctxDone
    /\ NeverLaunched # {}

\* C6: no deadlock: a launched task can always send its result and give
\* its slot back, the WaitGroup counts exactly the unfinished launched
\* tasks, and a run that has not returned can always take a step (or is
\* waiting for the limiter's timer).
C6_NoDeadlock ==
    /\ \A k \in SegIdx : task[k] = "send" => ENABLED SendResult(k)
    /\ \A k \in SegIdx : task[k] = "release" => ENABLED ReleaseSlot(k)
    /\ wg = Cardinality({k \in SegIdx : task[k] \notin {"none", "finished"}})
    /\ Running =>
          \/ ENABLED Dispatcher
          \/ \E k \in SegIdx : ENABLED (BackendReturn(k) \/ TaskLocal(k))
          \/ pc = "pacing" /\ ~TokenReady

\* The join is about to complete after a cancellation: the launched tasks
\* are through, a dispatchable segment was never launched.
C6_Witness ==
    /\ pc = "join"
    /\ JoinReady
    /\ ctxDone
    /\ Launched # {}
    /\ NeverLaunched # {}

IsResolutionError(e, k) ==
    /\ e.kind \in {"extract", "nostyle"}
    /\ e.index = k - 1
    /\ e.tag = segments[k].SpeakerTag

\* C7: when every parsed segment fails resolution no backend call is
\* issued, no file is written, and Execute returns an ErrSynthesisBatch
\* listing every one of the failures.
C7_AllUnresolvedAborts ==
    (NSegs > 0 /\ Unresolved = 1..NSegs) =>
        /\ backendCalls = {}
        /\ Launched = {}
        /\ ~file.written
        /\ pc = "done" =>
              /\ ret.kind = "batch"
              /\ Len(ret.Details) = NSegs
              /\ \A k \in 1..NSegs : IsResolutionError(ret.Details[k], k)

C7_Witness ==
    /\ pc = "done"
    /\ NSegs = MaxSegs
    /\ Unresolved = 1..NSegs
    /\ ret.kind = "batch"

\* C8: when a segment fails resolution the run returns an aggregated
\* error holding that failure and writes no file, even if every other
\* segment succeeds at the backend.
C8_OneUnresolvedFailsRun ==
    Unresolved # {} =>
        /\ ~file.written
        /\ pc = "done" =>
              /\ ret.kind = "batch"
              /\ \A k \in Unresolved :
                    \E j \in 1..Len(ret.Details) : IsResolutionError(ret.Details[j], k)

\* One segment failed resolution, every other one delivered its payload.
C8_Witness ==
    /\ pc = "done"
    /\ NSegs = MaxSegs
    /\ Cardinality(Unresolved) = 1
    /\ \A k \in (1..NSegs) \ Unresolved : Produced(k)

\* C9: an ErrSynthesisBatch counts and lists exactly the resolution
\* failures and the errors of the launched tasks, each once.
C9_BatchAccounting ==
    ret.kind = "batch" =>
        /\ ret.TotalErrors = Len(ret.Details)
        /\ ret.TotalErrors = Cardinality(Unresolved) + Cardinality(FailedResults)
        /\ Cardinality(SeqToSet(ret.Details)) = Len(ret.Details)
        /\ \A k \in Unresolved :
              \E j \in 1..Len(ret.Details) : IsResolutionError(ret.Details[j], k)
        /\ \A j \in FailedResults : delivered[j].err \in SeqToSet(ret.Details)

\* A batch error holding a resolution failure and two task errors.
C9_Witness ==
    /\ ret.kind = "batch"
    /\ Cardinality(Unresolved) = 1
    /\ Cardinality(FailedResults) = 2

IsNonBlank(l) == TrimSpace(l) # EmptyString

\* The lines of the script Parse does not skip.
NonBlankLines == SelectSeq(script, IsNonBlank)

\* A line that is tagged taken by itself, its combined tag and its text.
IsTaggedLine(l) == reScriptParse(TrimSpace(l)).matched

LineTag(l) ==
    LET m == reScriptParse(TrimSpace(l)) IN m.speakerTag \o m.vvStyleTag

LineText(l) == reScriptParse(TrimSpace(l)).textPart

\* A text minus its annotations, and what is left of it once trimmed.
Sanitized(t) == TrimSpace(ReplaceEmotion(t))

HasContent(l) == Sanitized(LineText(l)) # EmptyString

RECURSIVE ConcatTexts(_)
ConcatTexts(segs) ==
    IF segs = << >> THEN EmptyString ELSE Head(segs).Text \o ConcatTexts(Tail(segs))

Returned == parsePc = "returned"

\* Parse has returned from a script of tagged lines only, each text
\* within the budget.
TaggedOnlyUnderBudget ==
    /\ Returned
    /\ \A i \in 1..Len(NonBlankLines) :
         /\ IsTaggedLine(NonBlankLines[i])
         /\ Len(LineText(NonBlankLines[i])) <= maxSegmentCharLength

\* C11: every segment Parse returns has a text of at most
\* maxSegmentCharLength runes, whatever path emitted it (a tagged line, an
\* appended line, a split remainder or the end-of-input flush of the
\* pending buffer).
C11_SegmentsWithinBudget ==
    Returned =>
      \A i \in 1..Len(p_segments) : Len(p_segments[i].Text) <= maxSegmentCharLength

\* C12: every segment of the parser's list has a non-empty text and a
\* non-empty tag; a candidate whose text is empty once its annotations are
\* stripped and it is trimmed is not emitted.
C12_SegmentsNonEmpty ==
    \A i \in 1..Len(p_segments) :
      /\ p_segments[i].Text # EmptyString
      /\ p_segments[i].SpeakerTag # EmptyString

\* Parse returned segments, and a tagged line of the script had a text
\* made of annotations only.
C12_Witness ==
    /\ Returned
    /\ Len(p_segments) > 0
    /\ \E i \in 1..Len(NonBlankLines) :
         /\ IsTaggedLine(NonBlankLines[i])
         /\ LineText(NonBlankLines[i]) # EmptyString
         /\ ~HasContent(NonBlankLines[i])

\* C13, as claimed: a script of tagged lines only, each text within the
\* budget, gives as many segments as it has non-blank lines, one per line
\* in line order, each with its line's combined tag.
C13_SegmentPerTaggedLine ==
    TaggedOnlyUnderBudget =>
      /\ Len(p_segments) = Len(NonBlankLines)
      /\ \A i \in 1..Len(p_segments) :
           p_segments[i].SpeakerTag = LineTag(NonBlankLines[i])

\* C13: a script of tagged lines only, each text within the budget, gives
\* one segment per line whose text is not empty once sanitized, in line
\* order, with the line's combined tag and its sanitized text; a tagged
\* line with no text left gives no segment.
C13_SegmentPerTaggedLineWithText ==
    TaggedOnlyUnderBudget =>
      LET withText == SelectSeq(NonBlankLines, HasContent)
      IN /\ Len(p_segments) = Len(withText)
         /\ \A i \in 1..Len(withText) :
              /\ p_segments[i].SpeakerTag = LineTag(withText[i])
              /\ p_segments[i].Text = Sanitized(LineText(withText[i]))

\* Two tagged lines with different tags, both with text, gave two segments.
C13_Witness ==
    /\ TaggedOnlyUnderBudget
    /\ Len(NonBlankLines) = 2
    /\ HasContent(NonBlankLines[1])
    /\ HasContent(NonBlankLines[2])
    /\ LineTag(NonBlankLines[1]) # LineTag(NonBlankLines[2])
    /\ Len(p_segments) = 2

\* Two consecutive tagged lines with the same combined tag, both with text
\* within the budget.
TwoSameTagLines ==
    /\ TaggedOnlyUnderBudget
    /\ Len(NonBlankLines) = 2
    /\ LineTag(NonBlankLines[1]) = LineTag(NonBlankLines[2])
    /\ HasContent(NonBlankLines[1])
    /\ HasContent(NonBlankLines[2])

\* C14: two consecutive tagged lines with the same combined tag give two
\* segments, the first with the first line's text only and the second with
\* the second line's: the open segment is flushed before the second line
\* starts its own.
C14_SameTagLinesNotMerged ==
    TwoSameTagLines =>
      /\ Len(p_segments) = 2
      /\ p_segments[1].Text = Sanitized(LineText(NonBlankLines[1]))
      /\ p_segments[2].Text = Sanitized(LineText(NonBlankLines[2]))

\* The two lines together would have fitted one segment.
C14_Witness ==
    /\ TwoSameTagLines
    /\ Len(p_segments) = 2
    /\ Len(p_segments[1].Text) + 1 + Len(p_segments[2].Text) <= maxSegmentCharLength

IsNotSpace(r) == r \notin Whitespace

\* C15: a single tagged line whose text exceeds the budget gives at least
\* two segments under its tag, whose texts concatenated in order are the
\* line's text minus its annotations.  Stated for the lines whose text
\* exceeds the budget even without its annotations, and comparing the
\* texts without their whitespace (trimming removes it at a split).
C15_LongLineSplitsLosslessly ==
    (/\ Returned
     /\ Len(NonBlankLines) = 1
     /\ IsTaggedLine(NonBlankLines[1])
     /\ Len(LineText(NonBlankLines[1])) > maxSegmentCharLength
     /\ Len(SelectSeq(ReplaceEmotion(LineText(NonBlankLines[1])), IsNotSpace))
          > maxSegmentCharLength)
    =>
      /\ Len(p_segments) >= 2
      /\ \A i \in 1..Len(p_segments) :
           p_segments[i].SpeakerTag = LineTag(NonBlankLines[1])
      /\ SelectSeq(ConcatTexts(p_segments), IsNotSpace)
           = SelectSeq(ReplaceEmotion(LineText(NonBlankLines[1])), IsNotSpace)

\* The last split: was the text over the budget, and which of its marks
\* were within it.
SplitSpace == IF lastSplit.count > 0 THEN 1 ELSE 0

SplitCapacity == maxSegmentCharLength - lastSplit.count - SplitSpace

SplitOverBudget ==
    /\ lastSplit.called
    /\ lastSplit.count + SplitSpace + Len(lastSplit.text) > maxSegmentCharLength

MarksWithinBudget ==
    {i \in 1..Len(lastSplit.text) :
       i <= SplitCapacity /\ lastSplit.text[i] \in Punctuation}

\* C16: when the text to append exceeds the budget and a mark lies in the
\* part that still fits, the split is right after the rightmost such mark;
\* a cut at the remaining capacity that is not after a mark happens only
\* when no mark lies within the budget.
C16_SplitAtRightmostMark ==
    SplitOverBudget =>
      /\ lastSplit.partToAdd \o lastSplit.remainder = lastSplit.text
      /\ MarksWithinBudget # {} =>
           /\ Len(lastSplit.partToAdd) \in MarksWithinBudget
           /\ \A i \in MarksWithinBudget : i <= Len(lastSplit.partToAdd)
      /\ (MarksWithinBudget = {} /\ SplitCapacity > 0) =>
           Len(lastSplit.partToAdd) = SplitCapacity

\* A split after a mark that is not the first mark within the budget and
\* that leaves capacity unused.
C16_Witness ==
    /\ SplitOverBudget
    /\ Cardinality(MarksWithinBudget) >= 2
    /\ Len(lastSplit.partToAdd) < SplitCapacity

ParseRunning == parsePc \in {"lines", "append"}

\* What a step of Parse has still ahead: the lines to visit, and within a
\* line the text to place, and within an iteration the buffer to flush.
ParseRank == 2 * Len(lines) + (IF parsePc = "append" THEN 1 ELSE 0)

ParseStepProgresses ==
    \/ parsePc' = "returned"
    \/ ParseRank' < ParseRank
    \/ /\ ParseRank' = ParseRank
       /\ Len(textToAppend') < Len(textToAppend)
    \/ /\ ParseRank' = ParseRank
       /\ textToAppend' = textToAppend
       /\ Len(p_currentText') < Len(p_currentText)

\* C17: Parse terminates and returns a nil error: every step of a running
\* Parse brings it nearer to its return (an iteration of the splitting loop
\* shortens what is left of the text, or flushes a non-empty buffer), and
\* the error it returns is nil.
C17_ParseTerminates ==
    [][/\ ParseRunning => ParseStepProgresses
       /\ parsePc' = "returned" => parseErr' = "nil"]_vars

\* The loop has just flushed a full buffer without placing any text.
C17_Witness ==
    /\ parsePc = "append"
    /\ lastSplit.called
    /\ lastSplit.partToAdd = EmptyString
    /\ lastSplit.remainder # EmptyString

\* ----------------------------------------------------------------------
\* Properties of combineWavData
\* ----------------------------------------------------------------------

\* A payload extractAudioData accepts, and the parts it was made of.
Accepted(p) == \E d \in PayloadParts : Payload(d) = p

PartsOf(p) == CHOOSE d \in PayloadParts : Payload(d) = p

AllAccepted == \A i \in 1..Len(combineInput) : Accepted(combineInput[i])

\* The format region of a payload as the payload holds it.
FormatRegionOf(p) == SubSeq(p, 1, Len(FormatRegion(PartsOf(p), 0)))

RECURSIVE SamplesOf(_)
SamplesOf(list) ==
    IF list = << >> THEN << >>
    ELSE PartsOf(Head(list)).samples \o SamplesOf(Tail(list))

\* combineWavData returned bytes for a list of accepted payloads.
CombinedOk == combined.called /\ Len(combineInput) >= 1 /\ AllAccepted

\* C18, as claimed: combining one well-formed payload returns, byte for
\* byte, that payload's format region, a data chunk header with its sample
\* length, and its samples.
C18_SingleRoundTrip ==
    (CombinedOk /\ Len(combineInput) = 1) =>
      /\ combined.err = "nil"
      /\ combined.bytes =
           FormatRegionOf(combineInput[1])
             \o Chunk(DataID, Len(SamplesOf(combineInput)), SamplesOf(combineInput))

\* C18: combining one well-formed payload returns that payload's format
\* region with its outer size field set to the format region's length plus
\* the sample length, a data chunk header with the sample length, and the
\* samples; these are the payload's own bytes when its outer size field
\* held that value and nothing follows its samples.
C18_SingleRoundTripUpToOuterSize ==
    (CombinedOk /\ Len(combineInput) = 1) =>
      LET p == combineInput[1]
          d == PartsOf(p)
          region == FormatRegionOf(p)
      IN /\ combined.err = "nil"
         /\ combined.bytes =
              SubSeq(region, 1, RiffChunkSizeOffset)
                \o PutUint32(Len(region) + Len(d.samples))
                \o SubSeq(region, RiffChunkSizeOffset + RiffChunkSizeSize + 1, Len(region))
                \o Chunk(DataID, Len(d.samples), d.samples)
         /\ (d.sizeOk /\ ~d.trailer /\ ~d.stray) => combined.bytes = p

\* One payload with samples whose outer size field held another value.
C18_Witness ==
    /\ CombinedOk
    /\ Len(combineInput) = 1
    /\ ~PartsOf(combineInput[1]).sizeOk
    /\ Len(PartsOf(combineInput[1]).samples) = MaxSampleLen
    /\ combined.err = "nil"

\* Where the data chunk of the output starts: after the first payload's
\* format region.
OutputDataStart == Len(FormatRegionOf(combineInput[1]))

\* C19: combining well-formed payloads gives an output whose declared
\* sample-data size is the sum of the payloads' sample lengths and whose
\* sample region is the payloads' samples concatenated in input order.
C19_SamplesConcatenated ==
    CombinedOk =>
      /\ combined.err = "nil"
      /\ Slice(combined.bytes, OutputDataStart, OutputDataStart + DataChunkIDSize) = DataID
      /\ Uint32(Slice(combined.bytes, OutputDataStart + DataChunkIDSize,
                      OutputDataStart + DataChunkHeaderSize))
           = Len(SamplesOf(combineInput))
      /\ Slice(combined.bytes, OutputDataStart + DataChunkHeaderSize, Len(combined.bytes))
           = SamplesOf(combineInput)

\* Two payloads with different samples.
C19_Witness ==
    /\ CombinedOk
    /\ Len(combineInput) = 2
    /\ PartsOf(combineInput[1]).samples # PartsOf(combineInput[2]).samples
    /\ Len(PartsOf(combineInput[1]).samples) > 0
    /\ Len(PartsOf(combineInput[2]).samples) > 0
    /\ combined.err = "nil"

OuterSizeField ==
    Uint32(Slice(combined.bytes, RiffChunkSizeOffset, RiffChunkSizeOffset + RiffChunkSizeSize))

\* C20, as claimed: the outer size field of every combined output is the
\* format region's length plus the total sample bytes minus 8.
C20_OuterSizeIsRegionPlusSamplesMinus8 ==
    (combined.called /\ combined.err = "nil") =>
      OuterSizeField = OutputDataStart + Len(SamplesOf(combineInput)) - 8

\* C20: the outer size field of every combined output is the format
\* region's length plus the 8 bytes of the data chunk header plus the total
\* sample bytes, minus 8: the length of the output minus 8.
C20_OuterSizeIsOutputLengthMinus8 ==
    (combined.called /\ combined.err = "nil") =>
      /\ OuterSizeField
           = OutputDataStart + DataChunkHeaderSize + Len(SamplesOf(combineInput)) - 8
      /\ OuterSizeField = Len(combined.bytes) - 8

\* An output of two payloads, the first with metadata in its format region.
C20_Witness ==
    /\ combined.called
    /\ combined.err = "nil"
    /\ Len(combineInput) = 2
    /\ PartsOf(combineInput[1]).meta = "odd"
    /\ Len(SamplesOf(combineInput)) > 0

\* C21: combineWavData fails as a whole: an empty list gives the no-audio
\* error, a list with a malformed payload at any position gives an error,
\* and with an error come no bytes at all; finalizeOutput then writes no
\* file.
C21_FailsAtomically ==
    combined.called =>
      /\ Len(combineInput) = 0 =>
           (combined.err = "noaudio" /\ combined.bytes = << >>)
      /\ (\E i \in 1..Len(combineInput) : combineInput[i] \in MalformedPayloads) =>
           (combined.err = "invalidheader" /\ combined.bytes = << >>)
      /\ combined.err # "nil" =>
           (combined.bytes = << >> /\ file = NoFile /\ ret \in {RetNone, RetCombine})

\* A readable payload with samples, then a malformed one; finalizeOutput
\* has returned.
C21_Witness ==
    /\ combined.called
    /\ Len(combineInput) = 2
    /\ Accepted(combineInput[1])
    /\ Len(PartsOf(combineInput[1]).samples) > 0
    /\ combineInput[2] \in MalformedPayloads
    /\ ret = RetCombine
    /\ file = NoFile

\* A payload of the model whose data chunk declares more bytes than are
\* there.
TruncatedPayload == RiffHeader(0) \o FmtChunk \o Chunk(DataID, 3, <<7>>)

\* The length a payload's data chunk declares differs from the number of
\* bytes present after the chunk's header.
LengthMismatch(p) ==
    \/ p = TruncatedPayload
    \/ \E d \in PayloadParts : Payload(d) = p /\ (d.trailer \/ d.stray)

\* C22: a payload whose data chunk declares a length different from the
\* number of bytes present after the chunk header, more or fewer, is
\* rejected with a malformed-payload error.
C22_LengthMismatchRejected ==
    (combined.called /\ \E i \in 1..Len(combineInput) : LengthMismatch(combineInput[i])) =>
      combined.err = "invalidheader"

\* The position (counted from 1) of the first payload of the list that
\* extractAudioData rejects.
FirstMalformed ==
    CHOOSE i \in 1..Len(combineInput) :
      /\ combineInput[i] \in MalformedPayloads
      /\ \A j \in 1..(i - 1) : combineInput[j] \notin MalformedPayloads

\* The index the error carries when the first payload of a list is the
\* malformed one.
FirstPayloadIndex == combineWavData(<<TruncatedPayload>>).index

\* C23: when extraction of a payload fails, the malformed-header error
\* carries the position of that payload in the input list, counted for the
\* later payloads as it is counted for the first.
C23_ErrorIndexIsPosition ==
    (combined.called /\ combined.err = "invalidheader") =>
      combined.index = FirstPayloadIndex + (FirstMalformed - 1)

\* ----------------------------------------------------------------------
\* Properties of getStyleID and LoadSpeakers
\* ----------------------------------------------------------------------

\* C24: getStyleID returns the cached id of the tag; else the catalog's
\* id of the tag; else, with a non-empty base tag whose default combined
\* tag the catalog knows and has an id for, that default's id; else an
\* error naming the tag and the segment index.  It calls no backend.
C24_ResolutionPriority ==
    resolved.called =>
      LET tag   == resolved.tag
          base  == resolved.baseSpeakerTag
          ids   == speakerData.StyleIDMap
          dflts == speakerData.DefaultStyleMap
      IN /\ IF tag \in DOMAIN resolved.cacheBefore
            THEN resolved.err = NoErr /\ resolved.id = resolved.cacheBefore[tag]
            ELSE IF tag \in DOMAIN ids
            THEN resolved.err = NoErr /\ resolved.id = ids[tag]
            ELSE IF base # NoTag /\ base \in DOMAIN dflts /\ dflts[base] \in DOMAIN ids
            THEN resolved.err = NoErr /\ resolved.id = ids[dflts[base]]
            ELSE /\ resolved.err.kind \in {"extract", "nostyle"}
                 /\ resolved.err.tag = tag
                 /\ resolved.err.index = resolved.index
         /\ backendCalls = {}

\* A tag the catalog has with an id other than its speaker's default,
\* asked for with its base tag and not yet cached.
C24_Witness ==
    /\ resolved.called
    /\ resolved.tag = TagZundaSexy
    /\ resolved.baseSpeakerTag = <<"zundamon">>
    /\ TagZundaSexy \notin DOMAIN resolved.cacheBefore
    /\ TagZundaSexy \in DOMAIN speakerData.StyleIDMap
    /\ speakerData.StyleIDMap[TagZundaSexy] # speakerData.StyleIDMap[TagZundaNormal]
    /\ resolved.id = speakerData.StyleIDMap[TagZundaSexy]

\* The response lists the speaker of this API name with a style named
\* Normal.
HasNormalStyle(apiName) ==
    \E i \in 1..Len(speakersResponse.speakers) :
      /\ speakersResponse.speakers[i].Name = apiName
      /\ \E j \in 1..Len(speakersResponse.speakers[i].Styles) :
           speakersResponse.speakers[i].Styles[j].Name = "Normal"

\* C25: LoadSpeakers fails, returning no catalog, or returns a catalog
\* whose DefaultStyleMap has an entry for every supported speaker; a
\* speaker list lacking the normal style of a supported speaker makes it
\* fail with ErrMissingRequiredField.
C25_SupportedSpeakersHaveDefault ==
    loadErr # "none" =>
      /\ loadErr = "nil" =>
           \A i \in 1..Len(SupportedSpeakers) :
             SupportedSpeakers[i].ToolTag \in DOMAIN speakerData.DefaultStyleMap
      /\ loadErr # "nil" => speakerData = NoData
      /\ (/\ speakersResponse.kind = "ok"
          /\ \E i \in 1..Len(SupportedSpeakers) :
               ~HasNormalStyle(SupportedSpeakers[i].APIName)) =>
           (loadErr = "ErrMissingRequiredField" /\ speakerData = NoData)

\* Both supported speakers are listed with styles, one without Normal.
C25_Witness ==
    /\ speakersResponse.kind = "ok"
    /\ Len(speakersResponse.speakers) = 2
    /\ HasNormalStyle("Zundamon")
    /\ ~HasNormalStyle("Shikoku Metan")
    /\ \E i \in 1..2 :
         /\ speakersResponse.speakers[i].Name = "Shikoku Metan"
         /\ Len(speakersResponse.speakers[i].Styles) > 0
    /\ loadErr = "ErrMissingRequiredField"
    /\ speakerData = NoData

\* ----------------------------------------------------------------------
\* Properties of Parse: untagged lines
\* ----------------------------------------------------------------------

IsPlain(l) == \A i \in 1..Len(l) : l[i] # "["

\* Parse has returned from a script of a plain untagged line and then a
\* tagged line with text, the two texts joined by a space within the
\* budget.
UntaggedThenTagged ==
    /\ Returned
    /\ Len(script) = 2
    /\ IsNonBlank(script[1])
    /\ IsPlain(script[1])
    /\ IsTaggedLine(script[2])
    /\ Sanitized(LineText(script[2])) # EmptyString
    /\ Len(TrimSpace(script[1])) + 1 + Len(LineText(script[2])) <= maxSegmentCharLength

\* C26: on a fresh parser, untagged text seen before any tag is merged
\* into the next tagged line: the segment carries that line's combined tag
\* and its text is the pending text followed by the line's text.
C26_PendingMergedIntoNextTagged ==
    UntaggedThenTagged =>
      p_segments =
        <<Segment(LineTag(script[2]), reBaseSpeakerTag(LineTag(script[2])),
                  Sanitized(TrimSpace(script[1]) \o <<" ">> \o LineText(script[2])))>>

\* The segment list once the open segment is flushed at end of input.
OpenFlushed ==
    IF p_currentText # EmptyString /\ p_currentTag # EmptyString
         /\ Sanitized(p_currentText) # EmptyString
    THEN Append(p_segments,
                Segment(p_currentTag, reBaseSpeakerTag(p_currentTag), Sanitized(p_currentText)))
    ELSE p_segments

\* The step that ends a call of Parse.
EndOfInput == parsePc = "lines" /\ lines = << >> /\ parsePc' = "returned"

\* The pending buffer as a segment under tag.
BufferSegment(tag) == Segment(tag, reBaseSpeakerTag(tag), Sanitized(p_textBuffer))

\* C27, as claimed: at end of input a non-empty pending buffer is emitted
\* as a segment under the last emitted segment's tag, else under a
\* non-empty fallbackTag, else dropped without an error; with no pending
\* buffer only the open segment is flushed.
C27_EndOfInputBuffer ==
    [][EndOfInput =>
        IF p_textBuffer # EmptyString
        THEN IF Len(OpenFlushed) > 0
             THEN p_segments' =
                    Append(OpenFlushed, BufferSegment(OpenFlushed[Len(OpenFlushed)].SpeakerTag))
             ELSE IF p_fallbackTag # EmptyString
             THEN p_segments' = <<BufferSegment(p_fallbackTag)>>
             ELSE p_segments' = << >> /\ parseErr' = "nil"
        ELSE p_segments' = OpenFlushed]_vars

\* A list with the pending buffer emitted under tag, if text is left of it
\* once its annotations are stripped and it is trimmed.
WithBuffer(segs, tag) ==
    IF Sanitized(p_textBuffer) # EmptyString THEN Append(segs, BufferSegment(tag)) ELSE segs

\* C27: at end of input a non-empty pending buffer of which text is left
\* after sanitizing is emitted as a segment under the last emitted
\* segment's tag, else under a non-empty fallbackTag, else dropped without
\* an error; a buffer of annotations only yields no segment; with no
\* pending buffer only the open segment is flushed.
C27_EndOfInputBufferWithText ==
    [][EndOfInput =>
        /\ parseErr' = "nil"
        /\ IF p_textBuffer # EmptyString
           THEN IF Len(OpenFlushed) > 0
                THEN p_segments' =
                       WithBuffer(OpenFlushed, OpenFlushed[Len(OpenFlushed)].SpeakerTag)
                ELSE IF p_fallbackTag # EmptyString
                THEN p_segments' = WithBuffer(<< >>, p_fallbackTag)
                ELSE p_segments' = << >>
           ELSE p_segments' = OpenFlushed]_vars

\* Parse returned the pending text of two untagged lines as one segment
\* under the fallback tag.
C27_Witness ==
    /\ Returned
    /\ Len(script) = 2
    /\ p_textBuffer # EmptyString
    /\ p_fallbackTag # EmptyString
    /\ Len(p_segments) = 1
    /\ p_segments[1].SpeakerTag = p_fallbackTag
    /\ p_segments[1].Text = Sanitized(p_textBuffer)

\* Parse has returned from a script of a tagged line with text and then
\* an untagged line, the two texts joined by a space within the budget.
TaggedThenUntagged ==
    /\ Returned
    /\ Len(script) = 2
    /\ IsTaggedLine(script[1])
    /\ LineText(script[1]) # EmptyString
    /\ IsNonBlank(script[2])
    /\ ~IsTaggedLine(script[2])
    /\ Len(LineText(script[1])) + 1 + Len(script[2]) <= maxSegmentCharLength

\* C28: an untagged line arriving while a segment is open, the joined text
\* within the budget, creates no new segment: its text is appended to the
\* open segment's text after exactly one space and emitted under the open
\* segment's tag.
C28_UntaggedAppendedToOpen ==
    TaggedThenUntagged =>
      LET tag    == LineTag(script[1])
          joined == LineText(script[1]) \o <<" ">> \o script[2]
      IN /\ Len(p_segments) <= 1
         /\ Sanitized(joined) # EmptyString =>
              p_segments = <<Segment(tag, reBaseSpeakerTag(tag), Sanitized(joined))>>

\* Both lines had text that stays.
C28_Witness ==
    /\ TaggedThenUntagged
    /\ Sanitized(LineText(script[1])) # EmptyString
    /\ Sanitized(script[2]) # EmptyString
    /\ Len(p_segments) = 1
    /\ Len(p_segments[1].Text) = maxSegmentCharLength

\* ----------------------------------------------------------------------
\* Properties of the dispatch loop and of the tasks
\* ----------------------------------------------------------------------

\* The segment carries a resolution error or no text.
NotDispatchable(k) == segments[k].Err # NoErr \/ segments[k].Text = ""

\* The dispatch loop leaves the segment it stands at.
LoopMoves == pos' # pos \/ pc' # pc

\* C29: a segment that carries a resolution error (or has no text) is
\* never dispatched: the loop steps over it taking neither the limiter's
\* token nor a semaphore slot, no task is launched and no backend call
\* issued for it; its error is in the aggregated error the run returns.
C29_UnresolvedNeverDispatched ==
    /\ [](\A k \in 1..NSegs :
            NotDispatchable(k) =>
              /\ task[k] = "none"
              /\ \A call \in backendCalls : call.index # k - 1
              /\ \A j \in 1..Len(delivered) : delivered[j].index # k - 1
              /\ (pc = "done" /\ segments[k].Err # NoErr) =>
                   (ret.kind = "batch" /\ segments[k].Err \in SeqToSet(ret.Details)))
    /\ [][(pc = "loop" /\ pos <= NSegs /\ NotDispatchable(pos) /\ LoopMoves) =>
            /\ pos' = pos + 1
            /\ pc' = "loop"
            /\ UNCHANGED <<limWait, sinceGate, semaphore, wg, task, backendCalls>>]_vars

\* A run came back with its error although the segment after the
\* unresolved one was dispatched and produced its payload.
C29_Witness ==
    /\ pc = "done"
    /\ NSegs >= 2
    /\ segments[1].Err # NoErr
    /\ task[1] = "none"
    /\ Produced(2)
    /\ ret.kind = "batch"
    /\ segments[1].Err \in SeqToSet(ret.Details)

\* The results segment k's task has sent.
ResultsOf(k) == {j \in 1..Len(delivered) : delivered[j].index = k - 1}

\* Execute went through the collection loop.
Collected == pc = "done" /\ Len(orderedAudioDataList) > 0

\* C30: a launched task calls audio_query with its segment's text and
\* style id, and synthesis, with the same style id, only when audio_query
\* succeeded; it sends exactly one result, carrying its segment's index;
\* the result list has one position per segment, filled only with the
\* payload of that segment's successful task, and empty for a skipped or
\* failed segment.
C30_OneResultPerTask ==
    /\ \A call \in backendCalls :
         LET k == call.index + 1 IN
         /\ k \in 1..NSegs
         /\ task[k] # "none"
         /\ call.styleID = segments[k].StyleID
         /\ call.op = "audio_query" => call.text = segments[k].Text
         /\ call.op = "synthesis" =>
              /\ AudioQueryCall(k) \in backendCalls
              /\ task[k] # "query"
              /\ result[k].err.kind # "query"
              /\ \A j \in ResultsOf(k) : delivered[j].err.kind # "query"
    /\ \A k \in SegIdx :
         /\ Cardinality(ResultsOf(k)) <= 1
         /\ task[k] \in {"release", "wgdone", "finished"} => Cardinality(ResultsOf(k)) = 1
         /\ task[k] \in {"none", "query", "synth", "send"} => ResultsOf(k) = {}
    /\ Collected =>
         /\ Len(orderedAudioDataList) = NSegs
         /\ \A k \in 1..NSegs :
              IF \E j \in ResultsOf(k) : delivered[j].err = NoErr
              THEN /\ orderedAudioDataList[k] = Wav(k - 1)
                   /\ SynthesisCall(k) \in backendCalls
              ELSE orderedAudioDataList[k] = NoWav

\* A collected run of three segments: the second task's payload is at the
\* second position, the third task failed at synthesis, the first at
\* audio_query.
C30_Witness ==
    /\ Collected
    /\ NSegs = 3
    /\ orderedAudioDataList = <<NoWav, Wav(1), NoWav>>
    /\ \E j \in ResultsOf(3) : delivered[j].err.kind = "synth"
    /\ \E j \in ResultsOf(1) : delivered[j].err.kind = "query"
    /\ SynthesisCall(1) \notin backendCalls

\* A task is launched in this step.
LaunchOf(k) == task[k] = "none" /\ task'[k] # "none"

\* C31: the gates are passed in order.  The loop reaches the semaphore
\* only by taking the limiter's token; a task is launched only from the
\* semaphore, for the segment the loop stands at, with a slot taken; an
\* attempt given up at the semaphore keeps its token taken and launches
\* nothing.
C31_GatesInOrder ==
    /\ [](pc = "sem" =>
            /\ limWait = RateTicks - sinceGate
            /\ pos <= NSegs
            /\ task[pos] = "none")
    /\ [][/\ (pc # "sem" /\ pc' = "sem") =>
               /\ pc \in {"loop", "pacing"}
               /\ limWait = 0
               /\ limWait' = RateTicks
               /\ UNCHANGED <<semaphore, wg, task, pos>>
          /\ \A k \in SegIdx : LaunchOf(k) =>
               /\ pc = "sem"
               /\ k = pos
               /\ semaphore' = semaphore + 1
               /\ wg' = wg + 1
               /\ UNCHANGED limWait
          /\ (pc = "sem" /\ pc' = "join") =>
               /\ ctxDone
               /\ UNCHANGED <<limWait, semaphore, wg, task, backendCalls, pos>>]_vars

\* The loop gave up at the semaphore: the token was taken in this
\* attempt, no tick ago, and the segment it stood at has no task.
C31_Witness ==
    /\ pc = "join"
    /\ ctxDone
    /\ pos <= NSegs
    /\ task[pos] = "none"
    /\ sinceGate = 0
    /\ sinceLaunch > 0
    /\ limWait = RateTicks

\* What the loaded catalog resolves a tag to: its own id, or the id of its
\* speaker's default combined tag.
CatalogResolves(tag, id) ==
    LET ids   == speakerData.StyleIDMap
        dflts == speakerData.DefaultStyleMap
        base  == BaseSpeakerTagOf(tag)
    IN IF tag \in DOMAIN ids THEN id = ids[tag]
       ELSE /\ base \in DOMAIN dflts
            /\ dflts[base] \in DOMAIN ids
            /\ id = ids[dflts[base]]

\* C32: a successful getStyleID leaves the cache mapping the tag it was
\* asked for (not the default tag) to the id it returned and changes no
\* other entry; a failed one leaves the cache as it was; every cached id
\* is what the catalog resolves for its tag; a call for a cached tag
\* returns the cached id and leaves the cache as it is.
C32_CacheKeepsResolvedTag ==
    /\ [](resolved.called =>
            IF resolved.err = NoErr
            THEN /\ resolved.tag \in DOMAIN styleIDCache
                 /\ styleIDCache[resolved.tag] = resolved.id
                 /\ DOMAIN styleIDCache = DOMAIN resolved.cacheBefore \cup {resolved.tag}
                 /\ \A t \in DOMAIN resolved.cacheBefore :
                      styleIDCache[t] = resolved.cacheBefore[t]
            ELSE styleIDCache = resolved.cacheBefore)
    /\ [](\A t \in DOMAIN styleIDCache : CatalogResolves(t, styleIDCache[t]))
    /\ [][(resolved' # resolved /\ resolved'.tag \in DOMAIN styleIDCache) =>
            /\ resolved'.err = NoErr
            /\ resolved'.id = styleIDCache[resolved'.tag]
            /\ styleIDCache' = styleIDCache]_vars

\* The second call for a tag the catalog lacks, resolved by fallback the
\* first time, answered from the cache although asked without a base tag.
C32_Witness ==
    /\ resolved.called
    /\ resolved.count = 2
    /\ resolved.tag = TagZundaSexy
    /\ resolved.baseSpeakerTag = NoTag
    /\ TagZundaSexy \notin DOMAIN speakerData.StyleIDMap
    /\ TagZundaSexy \in DOMAIN resolved.cacheBefore
    /\ resolved.err = NoErr
    /\ resolved.id = speakerData.StyleIDMap[TagZundaNormal]
    /\ TagZundaNormal \notin DOMAIN styleIDCache

\* ----------------------------------------------------------------------
\* Properties of buildCombinedWav and extractAudioData
\* ----------------------------------------------------------------------

\* C33: buildCombinedWav sets the outer size field to the format region's
\* length + 8 + the total sample length - 8, the length of the output
\* minus 8, and writes the data chunk header (identifier, total length)
\* right after the copied format region, the concatenated samples after
\* it.
C33_BuildLayout ==
    (combined.called /\ combined.err = "nil") =>
      LET h     == OutputDataStart
          total == Len(SamplesOf(combineInput))
      IN /\ Len(combined.bytes) = h + DataChunkHeaderSize + total
         /\ OuterSizeField = h + 8 + total - 8
         /\ OuterSizeField = Len(combined.bytes) - 8
         /\ SubSeq(combined.bytes, h + 1, Len(combined.bytes))
              = DataID \o PutUint32(total) \o SamplesOf(combineInput)

\* An output whose format region is longer than that of a 44-byte header.
C33_Witness ==
    /\ combined.called
    /\ combined.err = "nil"
    /\ Len(combineInput) = 2
    /\ PartsOf(combineInput[1]).meta = "even"
    /\ Len(PartsOf(combineInput[1]).samples) > 0
    /\ Len(PartsOf(combineInput[2]).samples) > 0

\* The payload's fmt chunk comes after its data chunk.
FmtAfterData(p) == p = RiffHeader(0) \o Chunk(DataID, 1, <<7>>) \o FmtChunk

\* The chunk headers of an accepted payload up to its data chunk: the
\* offset after each non-data chunk, given its declared length.
SkipFrom(offset, declared) ==
    offset + DataChunkHeaderSize + declared + (IF declared % 2 # 0 THEN 1 ELSE 0)

\* C34: extractAudioData scans the chunks from offset 12, steps over a
\* non-data chunk by 8 + its declared length, plus 1 when that is odd, so
\* that its offset grows; it returns the declared number of bytes of the
\* first data chunk and the bytes before that chunk, and fails when no
\* fmt chunk came before the data chunk.
C34_ChunkScan ==
    combined.called =>
      \A i \in 1..Len(combineInput) :
        LET p == combineInput[i]
            x == extractAudioData(p, i)
        IN /\ Accepted(p) =>
                LET d == PartsOf(p)
                    afterFmt  == SkipFrom(WavRiffHeaderSize, 16)
                    afterMeta == IF d.meta = "none" THEN afterFmt
                                 ELSE SkipFrom(afterFmt, Uint32(Slice(p, afterFmt + 4, afterFmt + 8)))
                IN /\ x.err = NoExtractErr
                   /\ Len(x.formatHeader) = afterMeta
                   /\ afterMeta > afterFmt \/ d.meta = "none"
                   /\ x.formatHeader = SubSeq(p, 1, afterMeta)
                   /\ Slice(p, afterMeta, afterMeta + 4) = DataID
                   /\ Len(x.audioData) = Uint32(Slice(p, afterMeta + 4, afterMeta + 8))
                   /\ x.audioData = d.samples
           /\ FmtAfterData(p) =>
                (x.err.kind = "invalidheader" /\ x.audioData = << >>)
           /\ p \in MalformedPayloads => x.err.kind = "invalidheader"

\* A payload with a chunk of odd length before its data chunk was
\* combined with one whose fmt chunk comes too late.
C34_Witness ==
    /\ combined.called
    /\ Len(combineInput) = 2
    /\ Accepted(combineInput[1])
    /\ PartsOf(combineInput[1]).meta = "odd"
    /\ Len(PartsOf(combineInput[1]).samples) = MaxSampleLen
    /\ FmtAfterData(combineInput[2])
    /\ combined.err = "invalidheader"

\* C35: the bytes of the output before its data chunk are the bytes of
\* the first payload before its data chunk, but for the 4 bytes of the
\* outer size field at offset 4; the format regions of the later payloads
\* do not show in the output, and their differing from the first is no
\* error.
C35_FirstFormatRegionOnly ==
    CombinedOk =>
      LET first == combineInput[1]
          h     == Len(FormatRegionOf(first))
      IN /\ combined.err = "nil"
         /\ \A i \in 1..h :
              (i <= RiffChunkSizeOffset \/ i > RiffChunkSizeOffset + RiffChunkSizeSize)
                => combined.bytes[i] = first[i]
         /\ Len(combined.bytes) = h + DataChunkHeaderSize + Len(SamplesOf(combineInput))
         /\ Slice(combined.bytes, h, h + DataChunkIDSize) = DataID

\* Two payloads with format regions of different lengths.
C35_Witness ==
    /\ CombinedOk
    /\ Len(combineInput) = 2
    /\ PartsOf(combineInput[1]).meta = "none"
    /\ PartsOf(combineInput[2]).meta = "odd"
    /\ Len(PartsOf(combineInput[2]).samples) > 0
    /\ combined.err = "nil"

\* ----------------------------------------------------------------------
\* Execute on a script without segments
\* ----------------------------------------------------------------------

\* C36: when the parser returns no segment, Execute returns an error
\* before it resolves a style id: the cache is left as it was, no backend
\* call is made, no task is launched and no file is written.
C36_NoSegmentsIsAnError ==
    /\ [][(pc = "idle" /\ pc' # "idle" /\ segments' = << >>) =>
            /\ pc' = "done"
            /\ ret' = RetNoSegs
            /\ styleIDCache' = styleIDCache
            /\ backendCalls' = {}
            /\ file' = NoFile]_vars
    /\ [](ret = RetNoSegs =>
            /\ pc = "done"
            /\ segments = << >>
            /\ styleIDCache = << >>
            /\ backendCalls = {}
            /\ \A k \in SegIdx : task[k] = "none"
            /\ semaphore = 0 /\ wg = 0
            /\ file = NoFile)

\* Execute has returned on an empty parse result.
C36_Witness ==
    /\ pc = "done"
    /\ ret = RetNoSegs
    /\ segments = << >>
    /\ preCalcErrors = << >>
    /\ ~file.written

\* ----------------------------------------------------------------------
\* A parser that is called again
\* ----------------------------------------------------------------------

\* A call of Parse starts.
ParseEntered == parsePc \in {"idle", "returned"} /\ parsePc' = "lines"

\* C37, as claimed: what Parse returns depends on its arguments only.  A
\* call starts with no open tag, no partial text and no pending buffer,
\* whatever the parser was called with before, and a call with the
\* arguments of an earlier call returns what that call returned.
C37_ParseDependsOnArgumentsOnly ==
    /\ [](\A i, j \in 1..Len(parseReturns) :
            (/\ parseReturns[i].script = parseReturns[j].script
             /\ parseReturns[i].fallbackTag = parseReturns[j].fallbackTag)
              => parseReturns[i].segments = parseReturns[j].segments)
    /\ [][ParseEntered =>
            /\ p_segments' = << >>
            /\ p_currentTag' = EmptyString
            /\ p_currentText' = EmptyString
            /\ p_textBuffer' = EmptyString]_vars

\* ----------------------------------------------------------------------
\* The catalog's default styles
\* ----------------------------------------------------------------------

\* getStyleID was called for a tag that is neither cached nor in
\* StyleIDMap, with a base tag that has a default style.
FellBackToDefault ==
    /\ resolved.called
    /\ resolved.tag \notin DOMAIN resolved.cacheBefore
    /\ resolved.tag \notin DOMAIN speakerData.StyleIDMap
    /\ resolved.baseSpeakerTag \in DOMAIN speakerData.DefaultStyleMap

\* C38: in every catalog LoadSpeakers returns, each value of
\* DefaultStyleMap is a key of StyleIDMap, so the second lookup of
\* getStyleID's fallback finds an id whenever the base tag has a default.
C38_DefaultsHaveIDs ==
    /\ loadErr = "nil" =>
         \A toolTag \in DOMAIN speakerData.DefaultStyleMap :
           speakerData.DefaultStyleMap[toolTag] \in DOMAIN speakerData.StyleIDMap
    /\ FellBackToDefault =>
         /\ resolved.err = NoErr
         /\ resolved.id =
              speakerData.StyleIDMap[speakerData.DefaultStyleMap[resolved.baseSpeakerTag]]

\* The first call fell back to the default style of its base tag.
C38_Witness ==
    /\ FellBackToDefault
    /\ resolved.count = 1
    /\ resolved.tag = TagZundaSexy
    /\ resolved.baseSpeakerTag = <<"zundamon">>
    /\ resolved.err = NoErr
    /\ TagZundaSexy \in DOMAIN styleIDCache

\* ----------------------------------------------------------------------
\* The slots at the end of runSynthesisBatch
\* ----------------------------------------------------------------------

\* The tasks that hold a slot: launched, their slot not yet given back.
HoldingSlot == {k \in SegIdx : task[k] \in {"query", "synth", "send", "release"}}

\* Task k gives its slot back.
Releases(k) == task[k] = "release" /\ task'[k] = "wgdone"

\* C39: when runSynthesisBatch returns no launched task is still running
\* and every slot is free.  A slot is given back only by a launched task,
\* one slot per task and once per task; a segment that was not launched
\* gives none back.
C39_SlotsReleasedAtReturn ==
    /\ [](semaphore = Cardinality(HoldingSlot))
    /\ [](pc = "done" =>
            /\ semaphore = 0
            /\ wg = 0
            /\ \A k \in SegIdx : task[k] \in {"none", "finished"})
    /\ [][/\ (pc = "join" /\ pc' = "done") =>
               (semaphore = 0 /\ \A k \in SegIdx : task[k] \in {"none", "finished"})
          /\ semaphore' < semaphore =>
               /\ semaphore' = semaphore - 1
               /\ \E k \in SegIdx :
                    /\ Releases(k)
                    /\ \A j \in SegIdx \ {k} : task'[j] = task[j]
          /\ \A k \in SegIdx :
               /\ Releases(k) => semaphore' = semaphore - 1
               /\ task[k] \in {"wgdone", "finished"} => task'[k] \in {"wgdone", "finished"}
               /\ task[k] = "none" => task'[k] \in {"none", "query", "send"}]_vars

\* A cancelled run has returned: one task ran to its end, a segment that
\* could have been dispatched was never launched.
C39_Witness ==
    /\ pc = "done"
    /\ ctxDone
    /\ maxParallel = 1
    /\ Len(segments) = MaxSegs
    /\ task[1] = "finished"
    /\ \E k \in 2..MaxSegs : task[k] = "none" /\ ~Skipped(segments[k])
    /\ semaphore = 0

====
